---- MODULE Spec2Model ----
(***************************************************************************)
(* Model of the extraction normalisation layer of quote-automation-app:    *)
(* src/src/lib/quoteSchema.ts (normalizeNumber, the zod schemas,           *)
(* normalizeExtraction, fillMissingTotals, normaliseTotals).               *)
(*                                                                         *)
(* JavaScript values are tagged records: the field t holds the type name   *)
(* zod reports ("undefined", "null", "string", ...).  A string is a        *)
(* sequence of one-character strings, so that trim, lastIndexOf and        *)
(* replace are computed character by character.  A finite number is the    *)
(* decimal m * 10^(-e) in lowest terms; the binary rounding error of IEEE  *)
(* doubles is not modelled, overflow to Infinity is (MaxDouble).           *)
(***************************************************************************)
EXTENDS Integers, Sequences, FiniteSets, TLC

VARIABLES
    raw,      \* the value handed to normalizeExtraction
    result,   \* what the last call returned: a Document or the thrown Error
    first,    \* the result of the first call, kept across the render round trip
    pc,       \* position of the request: "input", "normalized", "resubmitted", "renormalized"
    numIn,    \* the value handed to normalizeNumber
    numOut,   \* what normalizeNumber returned
    numPc,    \* "input" or "done"
    numeral,  \* how numIn was written, when it was written as a localized numeral
    quote,          \* page.tsx: the quote state of the page (null before an upload)
    isDownloading,  \* page.tsx: the isDownloading state
    error,          \* page.tsx: the error state (null or a message)
    downloaded,     \* page.tsx: the running handleDownload clicked the file link
    edits,          \* number of edits made on the page
    request,        \* the body of the render-quote request in flight
    serverPc,       \* render-quote POST: "idle", "normalized" (line 38 returned), "failed" (it threw)
    normalized,     \* render-quote POST: what normalizeExtraction made of the request's quote
    rendered,       \* the quote buildPdf was called with for the last request
    response,       \* the response of render-quote on its way to the page
    calls,          \* concurrent calls of normalizeExtraction: input, position, result
    frames,         \* the local bindings (const parsed) of the calls under way
    totalsItems,    \* computeTotals: the items it is called with
    currentTotals,  \* computeTotals: the totals it is called with
    computedTotals, \* what computeTotals returned (undefined before the call)
    upload,         \* process-quote POST: the request (API key configured, body, file entry)
    processPc,      \* process-quote POST: "idle", "received", "checked", "normalized", "answered"
    openaiCalls,    \* process-quote POST: the calls made to the OpenAI client, in order
    modelOutput,    \* process-quote POST: rawJson, what the extraction model gave
    extracted,      \* process-quote POST: what normalizeExtraction returned (line 997)
    enrichment,     \* enhanceItemDescriptions: how its call of the model ended
    processResponse, \* process-quote POST: the response returned
    isProcessing,   \* page.tsx: a handleFile is taken to be waiting for process-quote
    fetches         \* page.tsx: the process-quote requests of handleFile, in the order
                    \* of the uploads: the file, and whether the response was handled

callVars == <<raw, result, first, pc>>

numberVars == <<numIn, numOut, numPc, numeral>>

pageVars ==
    <<quote, isDownloading, error, downloaded, edits, request, serverPc, normalized,
      rendered, response>>

concurrentVars == <<calls, frames>>

totalsVars == <<totalsItems, currentTotals, computedTotals>>

processVars ==
    <<upload, processPc, openaiCalls, modelOutput, extracted, enrichment,
      processResponse>>

uploadVars == <<isProcessing, fetches>>

vars ==
    <<callVars, numberVars, pageVars, concurrentVars, totalsVars, processVars,
      uploadVars>>

---------------------------------------------------------------------------
(* Bounds of the model *)

\* Largest magnitude a number can hold before it becomes Infinity
\* (stands for Number.MAX_VALUE, 1.8e308).
MaxDouble == 100000000

\* Longest text (fullText, description, optional text fields) in an input.
MaxTextLen == 2

\* Longest arbitrary string handed to normalizeNumber.
MaxNumLen == 4

\* Most digits before / after the decimal separator of a written numeral.
MaxIntDigits == 7

MaxFracDigits == 1

\* Most items in an input document.
MaxItems == 2

---------------------------------------------------------------------------
(* JavaScript values *)

Undef == [t |-> "undefined"]

Null == [t |-> "null"]

Bool(b) == [t |-> "boolean", b |-> b]

Str(s) == [t |-> "string", s |-> s]

Fin(m, e) == [k |-> "fin", m |-> m, e |-> e]

Inf(neg) == [k |-> "inf", neg |-> neg]

NaN == [k |-> "nan"]

\* zod reports NaN as the type "nan" (z.number() rejects it).
Num(n) == [t |-> IF n.k = "nan" THEN "nan" ELSE "number", n |-> n]

EmptyObject == [t |-> "object", keys |-> {}]

EmptyArray == [t |-> "array", a |-> <<>>]

\* value == null  (null or undefined)
IsNullish(v) == v.t \in {"undefined", "null"}

\* a ?? b
Coalesce(a, b) == IF IsNullish(a) THEN b ELSE a

IsFiniteNum(v) == v.t = "number" /\ v.n.k = "fin"

---------------------------------------------------------------------------
(* Strings *)

Digits == {"0", "1", "2", "3", "4", "5", "6", "7", "8", "9"}

DigitVal(c) ==
    CASE c = "0" -> 0 [] c = "1" -> 1 [] c = "2" -> 2 [] c = "3" -> 3
      [] c = "4" -> 4 [] c = "5" -> 5 [] c = "6" -> 6 [] c = "7" -> 7
      [] c = "8" -> 8 [] c = "9" -> 9

Whitespace == {" "}

RECURSIVE TrimStart(_)
TrimStart(s) ==
    IF Len(s) > 0 /\ s[1] \in Whitespace THEN TrimStart(Tail(s)) ELSE s

RECURSIVE TrimEnd(_)
TrimEnd(s) ==
    IF Len(s) > 0 /\ s[Len(s)] \in Whitespace
    THEN TrimEnd(SubSeq(s, 1, Len(s) - 1))
    ELSE s

\* String.prototype.trim
Trim(s) == TrimEnd(TrimStart(s))

\* String.prototype.lastIndexOf for a one-character needle (0-based, -1 if none)
LastIndexOf(s, c) ==
    LET hits == {i \in 1..Len(s) : s[i] = c}
    IN  IF hits = {} THEN -1
        ELSE (CHOOSE i \in hits : \A j \in hits : j <= i) - 1

\* s.replace(/c/g, "")
RemoveAll(s, c) == SelectSeq(s, LAMBDA x : x # c)

\* s.replace(/c/g, d) for one-character c and d
ReplaceAll(s, c, d) == [i \in 1..Len(s) |-> IF s[i] = c THEN d ELSE s[i]]

RECURSIVE Pow10(_)
Pow10(n) == IF n = 0 THEN 1 ELSE 10 * Pow10(n - 1)

RECURSIVE DigitsToInt(_)
DigitsToInt(ds) ==
    IF Len(ds) = 0 THEN 0
    ELSE 10 * DigitsToInt(SubSeq(ds, 1, Len(ds) - 1)) + DigitVal(ds[Len(ds)])

---------------------------------------------------------------------------
(* Numbers *)

Abs(x) == IF x < 0 THEN -x ELSE x

\* the one representation m * 10^(-e) of a value: m carries no trailing zero
\* (1250.50 is 12505 * 10^-1, 1e8 is 1 * 10^8), so equal numbers are equal records
RECURSIVE Reduce(_, _)
Reduce(m, e) ==
    IF m = 0 THEN Fin(0, 0)
    ELSE IF m % 10 = 0 THEN Reduce(m \div 10, e - 1)
    ELSE Fin(m, e)

\* a * 10^k > MaxDouble, for a >= 0
RECURSIVE ScaledOver(_, _)
ScaledOver(a, k) ==
    IF a > MaxDouble THEN TRUE
    ELSE IF k = 0 \/ a = 0 THEN FALSE
    ELSE ScaledOver(a * 10, k - 1)

\* |m * 10^(-e)| > MaxDouble
Overflows(m, e) ==
    IF e <= 0 THEN ScaledOver(Abs(m), -e)
    ELSE LET p == Pow10(e)
         IN  \/ Abs(m) \div p > MaxDouble
             \/ Abs(m) \div p = MaxDouble /\ Abs(m) % p # 0

\* the double nearest to m * 10^(-e): the decimal itself, or +/-Infinity
MakeNumber(m, e) ==
    IF Overflows(m, e) THEN Inf(m < 0) ELSE Reduce(m, e)

\* x * y
Times(x, y) ==
    IF x.k = "nan" \/ y.k = "nan" THEN NaN
    ELSE IF x.k = "fin" /\ y.k = "fin" THEN MakeNumber(x.m * y.m, x.e + y.e)
    ELSE IF (x.k = "fin" /\ x.m = 0) \/ (y.k = "fin" /\ y.m = 0) THEN NaN
    ELSE LET xneg == IF x.k = "fin" THEN x.m < 0 ELSE x.neg
             yneg == IF y.k = "fin" THEN y.m < 0 ELSE y.neg
         IN  Inf(xneg # yneg)

\* x + y
Plus(x, y) ==
    IF x.k = "nan" \/ y.k = "nan" THEN NaN
    ELSE IF x.k = "inf" /\ y.k = "inf" THEN IF x.neg = y.neg THEN x ELSE NaN
    ELSE IF x.k = "inf" THEN x
    ELSE IF y.k = "inf" THEN y
    ELSE LET e == IF x.e > y.e THEN x.e ELSE y.e
         IN  MakeNumber(x.m * Pow10(e - x.e) + y.m * Pow10(e - y.e), e)

\* -x
Negate(x) ==
    IF x.k = "fin" THEN Fin(-x.m, x.e)
    ELSE IF x.k = "inf" THEN Inf(~x.neg)
    ELSE NaN

\* x - y
Minus(x, y) == Plus(x, Negate(y))

\* Number(x.toFixed(2)): the sign, then the nearest decimal with two fraction
\* digits of the magnitude, the larger one on a tie; Infinity and NaN print as
\* such and parse back
ToFixed2(x) ==
    IF x.k # "fin" \/ x.e <= 2 THEN x
    ELSE LET d == Pow10(x.e - 2)
             n == (2 * Abs(x.m) + d) \div (2 * d)
         IN  MakeNumber(IF x.m < 0 THEN -n ELSE n, 2)

\* Number(string) for the characters that survive /[^0-9,.-]/g: an optional
\* minus sign, digits and at most one period with a digit on one side of it;
\* the empty string is 0; anything else is NaN.
StringToNumber(s) ==
    LET neg  == Len(s) > 0 /\ s[1] = "-"
        body == IF neg THEN Tail(s) ELSE s
        dots == {i \in 1..Len(body) : body[i] = "."}
        dot  == IF dots = {} THEN Len(body) + 1 ELSE CHOOSE i \in dots : TRUE
        ds   == RemoveAll(body, ".")
        e    == Len(body) - IF dots = {} THEN Len(body) ELSE dot
        m    == DigitsToInt(ds)
    IN  IF Len(s) = 0 THEN Fin(0, 0)
        ELSE IF \/ Cardinality(dots) > 1
                \/ Len(ds) = 0
                \/ \E i \in 1..Len(ds) : ds[i] \notin Digits
             THEN NaN
             ELSE MakeNumber(IF neg THEN -m ELSE m, e)

\* Number.isFinite
NumberIsFinite(n) == n.k = "fin"

\* value.replace(/[^0-9,.-]/g, "").trim()
NumericChars == Digits \cup {",", ".", "-"}

\* A slip in the cleaning: only the surrounding whitespace is removed.
Cleaned_TrimOnly(s) == Trim(s)

Cleaned(s) == Trim(SelectSeq(s, LAMBDA c : c \in NumericChars))

\* A slip in the locale branch: the period is always taken as the decimal point.
normaliseSeparators_PeriodOnly(cleaned) == RemoveAll(cleaned, ",")

\* A slip in the locale branch: the comma is always taken as the decimal point.
normaliseSeparators_CommaDecimal(cleaned) ==
    ReplaceAll(RemoveAll(cleaned, "."), ",", ".")

\* normalizeNumber, locale disambiguation: the rightmost separator is the
\* decimal point
normaliseSeparators(cleaned) ==
    LET lastComma == LastIndexOf(cleaned, ",")
        lastDot   == LastIndexOf(cleaned, ".")
    IN  IF lastComma > -1 /\ lastComma > lastDot
        THEN ReplaceAll(RemoveAll(cleaned, "."), ",", ".")
        ELSE RemoveAll(cleaned, ",")

\* A slip in the string case: the cleaned string is not tested for emptiness.
normalizeNumberString_NoEmptyTest(s) ==
    LET parsed == StringToNumber(normaliseSeparators(Cleaned(s)))
    IN  IF NumberIsFinite(parsed) THEN Num(parsed) ELSE Null

\* normalizeNumber, the string case
normalizeNumberString(s) ==
    LET cleaned == Cleaned(s)
        parsed  == StringToNumber(normaliseSeparators(cleaned))
    IN  IF Len(cleaned) = 0 THEN Null
        ELSE IF NumberIsFinite(parsed) THEN Num(parsed) ELSE Null

\* A slip in the numeric case: a number is returned without Number.isFinite.
normalizeNumber_AnyNumber(value) ==
    IF IsNullish(value) THEN Null
    ELSE IF value.t \in {"number", "nan"} THEN value
    ELSE IF value.t # "string" THEN Null
    ELSE normalizeNumberString(value.s)

\* quoteSchema.ts normalizeNumber: a finite number or null
normalizeNumber(value) ==
    IF IsNullish(value) THEN Null
    ELSE IF value.t \in {"number", "nan"}
    THEN IF NumberIsFinite(value.n) THEN value ELSE Null
    ELSE IF value.t # "string" THEN Null
    ELSE normalizeNumberString(value.s)

---------------------------------------------------------------------------
(* zod: a parse returns the parsed value and the issues it raised; the      *)
(* parse succeeded when no issue was raised.  An object schema parses every *)
(* key of its shape and an array schema every element, so the issues of all *)
(* of them are collected; keys outside the shape are stripped.  The         *)
(* messages are zod 3's defaults unless the schema gives its own.           *)

Issue(path, message) == [path |-> path, message |-> message]

\* F(x), with x evaluated once
With(x, F(_)) == CHOOSE r \in {F(y) : y \in {x}} : TRUE

Parsed(value) == [value |-> value, issues |-> <<>>]

Invalid(path, message) == [value |-> Undef, issues |-> <<Issue(path, message)>>]

\* zod's message for a value of the wrong type
ExpectedMessage(type, v) ==
    IF v.t = "undefined" THEN "Required"
    ELSE "Expected " \o type \o ", received " \o v.t

\* A slip in optionalString: a blank value becomes null, not undefined.
optionalStringTransform_Null(v) ==
    IF v.t = "string" /\ Len(v.s) > 0 THEN v ELSE Null

\* optionalString, .transform((value) => (value && value.length > 0 ? value : undefined))
optionalStringTransform(v) ==
    IF v.t = "string" /\ Len(v.s) > 0 THEN v ELSE Undef

\* optionalString = z.string().trim().optional().transform(...)
optionalString(v, path) ==
    IF v.t = "undefined" THEN Parsed(optionalStringTransform(v))
    ELSE IF v.t = "string" THEN Parsed(optionalStringTransform(Str(Trim(v.s))))
    ELSE Invalid(path, ExpectedMessage("string", v))

\* z.string().min(1, message): fullText and item description
requiredString(v, path, message) ==
    IF v.t # "string" THEN Invalid(path, ExpectedMessage("string", v))
    ELSE IF Len(v.s) < 1 THEN Invalid(path, message)
    ELSE Parsed(v)

\* numberLike.optional(): z.union([z.number(), z.null(), z.undefined(), z.string()])
\* .transform(normalizeNumber); undefined passes the optional wrapper untouched
numberLike(v, path) ==
    IF v.t = "undefined" THEN Parsed(Undef)
    ELSE IF v.t \in {"number", "null", "string"} THEN Parsed(normalizeNumber(v))
    ELSE Invalid(path, "Invalid input")

\* itemNumber: z.union([z.string(), z.null(), z.undefined()]).optional()
itemNumberSchema(v, path) ==
    IF v.t \in {"string", "null", "undefined"} THEN Parsed(v)
    ELSE Invalid(path, "Invalid input")

ContactKeys == {"name", "companyName", "address", "phone", "email", "taxId"}

\* the order in which zod walks the shape of contactSchema
ContactOrder == <<"name", "companyName", "address", "phone", "email", "taxId">>

\* keys a caller may send that contactSchema does not know
ContactExtraKeys == {"website"}

RECURSIVE ConcatIssues(_, _, _)
\* the issues of parses[order[i]], ..., in the order of the shape
ConcatIssues(parses, order, i) ==
    IF i > Len(order) THEN <<>>
    ELSE parses[order[i]].issues \o ConcatIssues(parses, order, i + 1)

\* A slip in the party schema: a missing block is parsed as {} (.default({})
\* in place of .optional()).
contactSchema_EmptyRecord(v, path) ==
    IF v.t = "undefined"
    THEN Parsed([t |-> "object", f |-> [k \in ContactKeys \cup ContactExtraKeys |-> Undef]])
    ELSE IF v.t # "object" THEN Invalid(path, ExpectedMessage("object", v))
    ELSE With([k \in ContactKeys |-> optionalString(v.f[k], path \o "." \o k)],
              LAMBDA parses :
                  [value  |-> [t |-> "object",
                               f |-> [k \in DOMAIN v.f |->
                                         IF k \in ContactKeys THEN parses[k].value
                                         ELSE Undef]],
                   issues |-> ConcatIssues(parses, ContactOrder, 1)])

\* contactSchema = z.object({...}).partial(), under .optional()
contactSchema(v, path) ==
    IF v.t = "undefined" THEN Parsed(Undef)
    ELSE IF v.t # "object" THEN Invalid(path, ExpectedMessage("object", v))
    ELSE With([k \in ContactKeys |-> optionalString(v.f[k], path \o "." \o k)],
              LAMBDA parses :
                  [value  |-> [t |-> "object",
                               f |-> [k \in DOMAIN v.f |->
                                         IF k \in ContactKeys THEN parses[k].value
                                         ELSE Undef]],
                   issues |-> ConcatIssues(parses, ContactOrder, 1)])

ItemDescriptionMessage == "La descripcion del item es obligatoria"

\* A slip in fillMissingTotals: the total is derived whenever quantity and
\* unitPrice are present, a supplied totalPrice or not.
fillMissingTotals_Overwrite(item) ==
    IF ~IsNullish(item.quantity) /\ ~IsNullish(item.unitPrice)
    THEN [item EXCEPT !.itemNumber = Coalesce(item.itemNumber, Undef),
                      !.totalPrice = Num(ToFixed2(Times(item.quantity.n, item.unitPrice.n)))]
    ELSE [item EXCEPT !.itemNumber = Coalesce(item.itemNumber, Undef)]

\* fillMissingTotals
fillMissingTotals(item) ==
    With([item EXCEPT !.itemNumber = Coalesce(item.itemNumber, Undef)],
         LAMBDA cleanItem :
             IF /\ IsNullish(cleanItem.totalPrice)
                /\ ~IsNullish(cleanItem.quantity)
                /\ ~IsNullish(cleanItem.unitPrice)
             THEN [cleanItem EXCEPT !.totalPrice =
                      Num(ToFixed2(Times(cleanItem.quantity.n, cleanItem.unitPrice.n)))]
             ELSE cleanItem)

\* quoteItemSchema = z.object({...}).transform(...): unit and richDescription
\* are not in the shape and are stripped
quoteItemSchema(v, path) ==
    IF v.t # "object" THEN Invalid(path, ExpectedMessage("object", v))
    ELSE With(
        [itemNumber  |-> itemNumberSchema(v.itemNumber, path \o ".itemNumber"),
         description |-> requiredString(v.description, path \o ".description",
                                        ItemDescriptionMessage),
         quantity    |-> numberLike(v.quantity, path \o ".quantity"),
         unitPrice   |-> numberLike(v.unitPrice, path \o ".unitPrice"),
         totalPrice  |-> numberLike(v.totalPrice, path \o ".totalPrice"),
         notes       |-> optionalString(v.notes, path \o ".notes")],
        LAMBDA p :
            [value  |-> [t |-> "object",
                         itemNumber |-> p.itemNumber.value,
                         description |-> p.description.value,
                         quantity |-> Coalesce(p.quantity.value, Null),
                         unitPrice |-> Coalesce(p.unitPrice.value, Null),
                         totalPrice |-> Coalesce(p.totalPrice.value, Null),
                         notes |-> p.notes.value,
                         unit |-> Undef,
                         richDescription |-> Undef],
             issues |-> p.itemNumber.issues \o p.description.issues
                           \o p.quantity.issues \o p.unitPrice.issues
                           \o p.totalPrice.issues \o p.notes.issues])

ItemsMessage == "Debes incluir al menos un item"

\* A slip in the items schema: .min(1) is missing.
itemsMin_Missing(a, path) == <<>>

\* z.array(...).min(1, "Debes incluir al menos un item")
itemsMin(a, path) ==
    IF Len(a) < 1 THEN <<Issue(path, ItemsMessage)>> ELSE <<>>

RECURSIVE ElementIssues(_, _)
ElementIssues(parses, i) ==
    IF i > Len(parses) THEN <<>>
    ELSE parses[i].issues \o ElementIssues(parses, i + 1)

\* items: z.array(quoteItemSchema).min(1, ...)
itemsSchema(v, path) ==
    IF v.t # "array" THEN Invalid(path, ExpectedMessage("array", v))
    ELSE With(<<[i \in 1..Len(v.a) |->
                    quoteItemSchema(v.a[i], path \o "." \o ToString(i - 1))]>>,
              LAMBDA parses :
                  [value  |-> [t |-> "array",
                               a |-> [i \in 1..Len(v.a) |-> parses[1][i].value]],
                   issues |-> itemsMin(v.a, path) \o ElementIssues(parses[1], 1)])

TotalsKeys == {"subtotal", "taxes", "shipping", "discount", "total"}

TotalsOrder == <<"subtotal", "taxes", "shipping", "discount", "total">>

\* normaliseTotals: every entry that normalizeNumber keeps, rounded to two
\* decimals; the other keys are left out
normaliseTotals(f) ==
    [key \in TotalsKeys |->
        With(normalizeNumber(f[key]),
             LAMBDA normalised :
                 IF ~IsNullish(normalised) /\ normalised.t # "nan"
                 THEN Num(ToFixed2(normalised.n))
                 ELSE Undef)]

EmptyTotals == [t |-> "object", f |-> [k \in TotalsKeys |-> Undef]]

\* quoteTotalsSchema.default({})
quoteTotalsSchema(v, path) ==
    LET input == IF v.t = "undefined" THEN EmptyTotals ELSE v
    IN  IF input.t # "object" THEN Invalid(path, ExpectedMessage("object", input))
        ELSE With([k \in TotalsKeys |-> numberLike(input.f[k], path \o "." \o k)],
                  LAMBDA parses :
                      [value  |-> [t |-> "object",
                                   f |-> normaliseTotals(
                                             [k \in TotalsKeys |-> parses[k].value])],
                       issues |-> ConcatIssues(parses, TotalsOrder, 1)])

\* the text keys of the metadata shape
MetadataKeys ==
    {"quoteNumber", "issueDate", "expirationDate", "currency", "paymentTerms",
     "deliveryTerms", "projectName", "additionalNotes"}

MetadataOrder ==
    <<"quoteNumber", "issueDate", "expirationDate", "currency", "paymentTerms",
      "deliveryTerms", "projectName", "additionalNotes">>

\* keys of the request-for-quotation documents (types/quote.ts QuoteMetadata,
\* the tests) that the metadata shape does not know
MetadataExtraKeys ==
    {"rfqNumber", "dueDate", "subject", "packing", "guarantees", "origin",
     "packingRequirements", "accessoriesInclusions"}

EmptyMetadata ==
    [t |-> "object", supplier |-> Undef, customer |-> Undef,
     f |-> [k \in MetadataKeys \cup MetadataExtraKeys |-> Undef]]

\* A slip in the metadata schema: .default({}) is missing.
metadataDefault_None(v) == v

\* .default({}): a missing metadata is parsed as {}
metadataDefault(v) == IF v.t = "undefined" THEN EmptyMetadata ELSE v

\* metadata: z.object({...}).default({})
metadataSchema(v, path) ==
    LET input == metadataDefault(v)
    IN  IF input.t # "object" THEN Invalid(path, ExpectedMessage("object", input))
        ELSE With(
            [supplier |-> contactSchema(input.supplier, path \o ".supplier"),
             customer |-> contactSchema(input.customer, path \o ".customer"),
             f |-> [k \in MetadataKeys |-> optionalString(input.f[k], path \o "." \o k)]],
            LAMBDA p :
                [value  |-> [t |-> "object",
                             supplier |-> p.supplier.value,
                             customer |-> p.customer.value,
                             f |-> [k \in DOMAIN input.f |->
                                       IF k \in MetadataKeys THEN p.f[k].value
                                       ELSE Undef]],
                 issues |-> p.supplier.issues \o p.customer.issues
                               \o ConcatIssues(p.f, MetadataOrder, 1)])

FullTextMessage == "String must contain at least 1 character(s)"

\* quoteExtractionSchema
quoteExtractionSchema(v) ==
    IF v.t # "object" THEN Invalid("", ExpectedMessage("object", v))
    ELSE With(
        [fullText |-> requiredString(v.fullText, "fullText", FullTextMessage),
         metadata |-> metadataSchema(v.metadata, "metadata"),
         items    |-> itemsSchema(v.items, "items"),
         totals   |-> quoteTotalsSchema(v.totals, "totals"),
         remarks  |-> optionalString(v.remarks, "remarks")],
        LAMBDA p :
            [value  |-> [t |-> "object",
                         fullText |-> p.fullText.value,
                         metadata |-> p.metadata.value,
                         items |-> p.items.value,
                         totals |-> Coalesce(p.totals.value, EmptyTotals),
                         remarks |-> p.remarks.value],
             issues |-> p.fullText.issues \o p.metadata.issues \o p.items.issues
                           \o p.totals.issues \o p.remarks.issues])

RECURSIVE JoinMessages(_, _)
\* issues.map((issue) => issue.message).join(" | ")
JoinMessages(issues, i) ==
    IF i > Len(issues) THEN ""
    ELSE IF i = Len(issues) THEN issues[i].message
    ELSE issues[i].message \o " | " \o JoinMessages(issues, i + 1)

\* what a call of normalizeExtraction ends with: ok and the Document, or the
\* thrown Error (its message, and the issues the message was joined from)
Returned(data) == [ok |-> TRUE, data |-> data, issues |-> <<>>, message |-> ""]

Thrown(issues) ==
    [ok |-> FALSE, data |-> Undef, issues |-> issues, message |-> JoinMessages(issues, 1)]

NoResult == [ok |-> FALSE, data |-> Undef, issues |-> <<>>, message |-> ""]

\* normalizeExtraction from line 156 on: what is made of the result of safeParse
normalizeParsed(parsed) ==
    IF Len(parsed.issues) > 0 THEN Thrown(parsed.issues)
    ELSE Returned(
             [t |-> "object",
              fullText |-> parsed.value.fullText,
              metadata |-> Coalesce(parsed.value.metadata, EmptyMetadata),
              items |-> [t |-> "array",
                         a |-> [i \in 1..Len(parsed.value.items.a) |->
                                   fillMissingTotals(parsed.value.items.a[i])]],
              totals |-> Coalesce(parsed.value.totals, EmptyTotals),
              remarks |-> parsed.value.remarks])

\* normalizeExtraction
normalizeExtraction(v) == With(quoteExtractionSchema(v), normalizeParsed)

\* JSON.parse(JSON.stringify(v)) of a number or a text: Infinity and NaN are
\* written as null; a property holding undefined is left out
JsonScalar(v) ==
    IF v.t \in {"number", "nan"} /\ v.n.k # "fin" THEN Null ELSE v

JsonFields(f) == [k \in DOMAIN f |-> JsonScalar(f[k])]

JsonContact(c) ==
    IF c.t = "object" THEN [c EXCEPT !.f = JsonFields(c.f)] ELSE c

JsonItem(item) ==
    [t |-> "object",
     itemNumber |-> JsonScalar(item.itemNumber),
     description |-> JsonScalar(item.description),
     quantity |-> JsonScalar(item.quantity),
     unitPrice |-> JsonScalar(item.unitPrice),
     totalPrice |-> JsonScalar(item.totalPrice),
     notes |-> JsonScalar(item.notes),
     unit |-> JsonScalar(item.unit),
     richDescription |-> JsonScalar(item.richDescription)]

\* the Document as the client gets it back and sends it again
JsonRoundTrip(d) ==
    [t |-> "object",
     fullText |-> JsonScalar(d.fullText),
     metadata |-> [t |-> "object",
                   supplier |-> JsonContact(d.metadata.supplier),
                   customer |-> JsonContact(d.metadata.customer),
                   f |-> JsonFields(d.metadata.f)],
     items |-> [t |-> "array", a |-> [i \in 1..Len(d.items.a) |-> JsonItem(d.items.a[i])]],
     totals |-> [t |-> "object", f |-> JsonFields(d.totals.f)],
     remarks |-> JsonScalar(d.remarks)]

\* the page before anything was uploaded, and no request under way
PageClosed ==
    /\ quote = Null
    /\ isDownloading = FALSE
    /\ error = Null
    /\ downloaded = FALSE
    /\ edits = 0
    /\ request = Undef
    /\ serverPc = "idle"
    /\ normalized = NoResult
    /\ rendered = Undef
    /\ response = Undef

\* no concurrent call under way
NoCalls == calls = <<>> /\ frames = <<>>

\* no upload was made
NoUploads == isProcessing = FALSE /\ fetches = <<>>

\* no process-quote request under way
NoProcess ==
    /\ upload = Undef
    /\ processPc = "idle"
    /\ openaiCalls = <<>>
    /\ modelOutput = Undef
    /\ extracted = NoResult
    /\ enrichment = Undef
    /\ processResponse = Undef

\* computeTotals is not called
NoTotals == totalsItems = <<>> /\ currentTotals = Undef /\ computedTotals = Undef

---------------------------------------------------------------------------
(* Inputs of normalizeNumber *)

\* Characters of the arbitrary strings: a digit, the two separators, the sign
\* and "$" for every character the regular expression strips.
NumAlphabet == {"1", ",", ".", "-", "$"}

RECURSIVE SeqsUpTo(_, _)
SeqsUpTo(S, n) ==
    IF n = 0 THEN {<<>>}
    ELSE LET shorter == SeqsUpTo(S, n - 1)
         IN  shorter \cup {Append(s, c) : s \in {x \in shorter : Len(x) = n - 1}, c \in S}

NoNumeral == [kind |-> "none"]

WrittenDigits == {"0", "1"}

\* integer parts: no leading zero unless the part is the single digit 0
IntParts ==
    {ds \in SeqsUpTo(WrittenDigits, MaxIntDigits) :
        Len(ds) >= 1 /\ (ds[1] = "0" => Len(ds) = 1)}

FracParts == SeqsUpTo(WrittenDigits, MaxFracDigits)

\* conv "comma": 1.234,5 (comma decimal, periods group the thousands);
\* conv "period": 1,234.5 (period decimal, commas group the thousands).
Numerals ==
    [kind : {"written"}, conv : {"comma", "period"}, neg : BOOLEAN,
     int : IntParts, frac : FracParts, grouped : BOOLEAN, currency : BOOLEAN]

\* the numerals the tests and the specification name
ExampleNumerals ==
    { [kind |-> "written", conv |-> "comma", neg |-> FALSE,
       int |-> <<"1", "2", "3", "4">>, frac |-> <<"5", "6">>,
       grouped |-> TRUE, currency |-> FALSE],
      [kind |-> "written", conv |-> "period", neg |-> FALSE,
       int |-> <<"2", "5", "0", "0">>, frac |-> <<"7", "5">>,
       grouped |-> TRUE, currency |-> FALSE],
      [kind |-> "written", conv |-> "period", neg |-> FALSE,
       int |-> <<"1", "2", "9", "9">>, frac |-> <<"9", "5">>,
       grouped |-> TRUE, currency |-> TRUE] }

\* digits with sep between groups of three, counted from the right
RECURSIVE Grouped(_, _)
Grouped(ds, sep) ==
    IF Len(ds) <= 3 THEN ds
    ELSE Grouped(SubSeq(ds, 1, Len(ds) - 3), sep) \o <<sep>>
             \o SubSeq(ds, Len(ds) - 2, Len(ds))

DecimalSep(n) == IF n.conv = "comma" THEN "," ELSE "."

ThousandsSep(n) == IF n.conv = "comma" THEN "." ELSE ","

\* the string a writer of that convention puts on paper
Written(n) ==
    (IF n.currency THEN <<"$">> ELSE <<>>)
        \o (IF n.neg THEN <<"-">> ELSE <<>>)
        \o (IF n.grouped THEN Grouped(n.int, ThousandsSep(n)) ELSE n.int)
        \o (IF Len(n.frac) > 0 THEN <<DecimalSep(n)>> \o n.frac ELSE <<>>)

\* the magnitude the writer meant
Intended(n) ==
    LET m == DigitsToInt(n.int \o n.frac)
    IN  Num(MakeNumber(IF n.neg THEN -m ELSE m, Len(n.frac)))

HasThousandsSep(n) == n.grouped /\ Len(n.int) > 3

\* values of every shape: numbers, null, undefined, booleans, objects, arrays
OtherShapes ==
    {Undef, Null, Bool(TRUE), Bool(FALSE), EmptyObject, EmptyArray,
     Num(Fin(0, 0)), Num(Fin(-3, 0)), Num(Fin(125, 1)), Num(MakeNumber(MaxDouble, 0)),
     Num(NaN), Num(Inf(FALSE)), Num(Inf(TRUE))}

ArbitraryInputs ==
    OtherShapes
        \cup {Str(s) : s \in SeqsUpTo(NumAlphabet, MaxNumLen)}
        \cup {Str(<<"a", "b", "c">>), Str(<<" ", " ">>)}
        \cup {Str(<<"1", ".", "2", "3", "4">>)}

InitNumber ==
    /\ numeral \in Numerals \cup ExampleNumerals \cup {NoNumeral}
    /\ numIn \in IF numeral = NoNumeral THEN ArbitraryInputs ELSE {Str(Written(numeral))}
    /\ numOut = Undef
    /\ numPc = "input"
    /\ raw = Undef
    /\ result = NoResult
    /\ first = NoResult
    /\ pc = "idle"
    /\ PageClosed
    /\ NoUploads
    /\ NoProcess
    /\ NoTotals
    /\ NoCalls

\* one call of normalizeNumber
Coerce ==
    /\ numPc = "input"
    /\ numOut' = normalizeNumber(numIn)
    /\ numPc' = "done"
    /\ UNCHANGED <<raw, result, first, pc, numIn, numeral, pageVars, concurrentVars, totalsVars, processVars, uploadVars>>

NextNumber == Coerce

SpecNumber == InitNumber /\ [][NextNumber]_vars

---------------------------------------------------------------------------
(* Inputs of normalizeExtraction *)

\* Characters of a text: a blank and "A" for every other character.
TextAlphabet == {" ", "A"}

Texts == SeqsUpTo(TextAlphabet, MaxTextLen)

\* what a caller may put where a text is expected
TextInputs == {Undef, Null, Num(Fin(7, 0))} \cup {Str(s) : s \in Texts}

ItemOf(itemNumber, description, quantity, unitPrice, totalPrice, notes, unit, rich) ==
    [t |-> "object", itemNumber |-> itemNumber, description |-> description,
     quantity |-> quantity, unitPrice |-> unitPrice, totalPrice |-> totalPrice,
     notes |-> notes, unit |-> unit, richDescription |-> rich]

DescribedItem(description) ==
    ItemOf(Undef, description, Undef, Undef, Undef, Undef, Undef, Undef)

GoodItem == DescribedItem(Str(<<"A">>))

ArrayOf(a) == [t |-> "array", a |-> a]

ContactOf(companyName, email, website) ==
    [t |-> "object",
     f |-> [k \in ContactKeys \cup ContactExtraKeys |->
               CASE k = "companyName" -> companyName
                 [] k = "email" -> email
                 [] k = "website" -> website
                 [] OTHER -> Undef]]

MetadataOf(supplier, customer, currency, quoteNumber, rfqNumber, packing) ==
    [t |-> "object", supplier |-> supplier, customer |-> customer,
     f |-> [k \in MetadataKeys \cup MetadataExtraKeys |->
               CASE k = "currency" -> currency
                 [] k = "quoteNumber" -> quoteNumber
                 [] k = "rfqNumber" -> rfqNumber
                 [] k = "packing" -> packing
                 [] OTHER -> Undef]]

TotalsOf(subtotal, taxes, total) ==
    [t |-> "object",
     f |-> [k \in TotalsKeys |->
               CASE k = "subtotal" -> subtotal
                 [] k = "taxes" -> taxes
                 [] k = "total" -> total
                 [] OTHER -> Undef]]

DocOf(fullText, metadata, items, totals, remarks) ==
    [t |-> "object", fullText |-> fullText, metadata |-> metadata, items |-> items,
     totals |-> totals, remarks |-> remarks]

\* documents that differ in what is missing or blank: fullText, the item
\* list, the descriptions
StructureDocs ==
    LET descriptions == {Undef, Str(<<>>), Str(<<" ">>), Str(<<"A">>), Str(<<" ", "A">>)}
        elements == {DescribedItem(d) : d \in descriptions} \cup {Null}
    IN  {DocOf(fullText, metadata, items, Undef, Undef) :
            fullText \in {Undef, Str(<<>>), Str(<<" ">>), Str(<<"A">>)},
            metadata \in {Undef, Null, EmptyMetadata},
            items \in {Undef, Null} \cup {ArrayOf(a) : a \in SeqsUpTo(elements, MaxItems)}}

\* documents that differ in the business terms of the metadata
MetadataDocs ==
    {DocOf(Str(<<"A">>),
           MetadataOf(Undef, Undef, currency, quoteNumber, rfqNumber, packing),
           ArrayOf(<<GoodItem>>), Undef, Undef) :
        currency \in TextInputs,
        quoteNumber \in {Undef, Str(<<" ", "A">>)},
        rfqNumber \in {Undef} \cup {Str(s) : s \in Texts},
        packing \in {Undef, Str(<<>>), Str(<<"A">>)}}

\* documents that differ in the party blocks and the remarks
PartyDocs ==
    LET contacts == {ContactOf(companyName, email, website) :
                        companyName \in TextInputs,
                        email \in {Undef, Str(<<" ">>), Str(<<"A">>)},
                        website \in {Undef, Str(<<"A">>)}}
    IN  {DocOf(Str(<<"A">>), MetadataOf(supplier, customer, Undef, Undef, Undef, Undef),
               ArrayOf(<<GoodItem>>), Undef, remarks) :
            supplier \in {Undef, Null} \cup contacts,
            customer \in {Undef, ContactOf(Undef, Undef, Undef)},
            remarks \in TextInputs}

\* documents that differ in the text fields of their item
ItemTextDocs ==
    {DocOf(Str(<<"A">>), Undef,
           ArrayOf(<<ItemOf(itemNumber, description, Undef, Undef, Undef, notes, unit, rich)>>),
           Undef, Undef) :
        itemNumber \in TextInputs,
        description \in {Str(<<"A">>), Str(<<" ", "A", " ">>)},
        notes \in TextInputs,
        unit \in {Undef, Str(<<"A">>)},
        rich \in {Undef, Str(<<"A">>)}}

\* the largest power of ten that is no more than MaxDouble
RECURSIVE LargestPowerOfTen(_)
LargestPowerOfTen(p) == IF p * 10 > MaxDouble THEN p ELSE LargestPowerOfTen(p * 10)

Large == Num(MakeNumber(LargestPowerOfTen(1), 0))

\* documents that differ in the numeric fields of their item and in the totals
NumericDocs ==
    LET quantities == {Undef, Null, Bool(TRUE), Num(Fin(2, 0)), Large, Num(Inf(FALSE)),
                       Str(<<"1", ",", "2", "5", "0", ".", "5", "0">>),
                       Str(<<"a", "b", "c">>)}
        unitPrices == {Undef, Null, Num(Fin(3, 0)), Num(Fin(15, 1)), Num(Fin(125, 3)),
                       Str(<<"0", ",", "5">>), Str(<<"-">>)}
        totalPrices == {Undef, Null, Num(Fin(999, 2)), Str(<<"$", "1", "0">>)}
        totalsGiven == {Undef, Null}
                    \cup {TotalsOf(subtotal, taxes, total) :
                            subtotal \in {Undef, Num(Fin(12345, 3))},
                            taxes \in {Undef, Str(<<"1", ".", "2", "3", "4", ",", "5", "6", "7">>)},
                            total \in {Undef, Null, Num(Inf(TRUE))}}
    IN  {DocOf(Str(<<"A">>), Undef,
               ArrayOf(<<ItemOf(Undef, Str(<<"A">>), quantity, unitPrice, totalPrice,
                                Undef, Undef, Undef)>>),
               tot, Undef) :
            quantity \in quantities, unitPrice \in unitPrices,
            totalPrice \in totalPrices, tot \in totalsGiven}

\* a value that is no object at all
NonObjects == {Undef, Null, Str(<<"A">>), EmptyArray}

RawInputs ==
    StructureDocs \cup MetadataDocs \cup PartyDocs \cup ItemTextDocs \cup NumericDocs
        \cup NonObjects

Init ==
    /\ raw \in RawInputs
    /\ result = NoResult
    /\ first = NoResult
    /\ pc = "input"
    /\ numIn = Undef
    /\ numOut = Undef
    /\ numPc = "idle"
    /\ numeral = NoNumeral
    /\ PageClosed
    /\ NoUploads
    /\ NoProcess
    /\ NoTotals
    /\ NoCalls

\* a caller hands raw to normalizeExtraction (process-quote on the model's
\* output)
Normalize ==
    /\ pc = "input"
    /\ \E returned \in {normalizeExtraction(raw)} :
           /\ result' = returned
           /\ first' = returned
    /\ pc' = "normalized"
    /\ UNCHANGED <<raw, numIn, numOut, numPc, numeral, pageVars, concurrentVars, totalsVars, processVars, uploadVars>>

\* the Document travels to the client as JSON and comes back as the quote of
\* a render request
Resubmit ==
    /\ pc = "normalized"
    /\ result.ok
    /\ raw' = JsonRoundTrip(result.data)
    /\ pc' = "resubmitted"
    /\ UNCHANGED <<result, first, numIn, numOut, numPc, numeral, pageVars, concurrentVars, totalsVars, processVars, uploadVars>>

\* render-quote normalizes the quote of the request again
Renormalize ==
    /\ pc = "resubmitted"
    /\ result' = normalizeExtraction(raw)
    /\ pc' = "renormalized"
    /\ UNCHANGED <<raw, first, numIn, numOut, numPc, numeral, pageVars, concurrentVars, totalsVars, processVars, uploadVars>>

Next == Normalize \/ Resubmit \/ Renormalize

Spec == Init /\ [][Next]_vars

---------------------------------------------------------------------------
(* The page (page.tsx) and the render-quote handler (route.ts) *)

\* Most edits (handleItemChange, addItem, removeItem) made on the page.
MaxEdits == 1

\* an error message held by the page or carried by a response
Message(m) == [t |-> "message", m |-> m]

RECURSIVE NumberToString(_)
\* String(n) for an integer n >= 0
NumberToString(n) ==
    IF n < 10 THEN <<ToString(n)>>
    ELSE NumberToString(n \div 10) \o <<ToString(n % 10)>>

\* parseNumberInput
parseNumberInput(value) ==
    LET trimmed == Trim(value)
        parsed  == StringToNumber(ReplaceAll(trimmed, ",", "."))
    IN  IF Len(trimmed) = 0 THEN Null
        ELSE IF NumberIsFinite(parsed) THEN Num(parsed) ELSE Null

TrimmedFields == {"description", "itemNumber", "notes", "unit"}

ItemFields == TrimmedFields \cup {"richDescription", "quantity"}

\* handleItemChange: the items after the edit (index counts from 1 here)
handleItemChange(q, index, field, value) ==
    [q EXCEPT !.items.a =
        [idx \in 1..Len(q.items.a) |->
            LET item == q.items.a[idx]
            IN  IF idx # index THEN item
                ELSE IF field \in TrimmedFields
                THEN [item EXCEPT ![field] =
                         IF Len(Trim(value)) > 0 THEN Str(Trim(value)) ELSE Undef]
                ELSE IF field = "richDescription"
                THEN [item EXCEPT !.richDescription =
                         IF Len(value) > 0 THEN Str(value) ELSE Undef]
                ELSE IF field = "quantity"
                THEN [item EXCEPT !.quantity = parseNumberInput(value)]
                ELSE item]]

\* addItem
addItem(q) ==
    [q EXCEPT !.items.a =
        Append(q.items.a,
               [t |-> "object",
                itemNumber |-> Str(NumberToString(Len(q.items.a) + 1)),
                description |-> Str(<<>>),
                quantity |-> Null,
                unitPrice |-> Undef,
                totalPrice |-> Undef,
                notes |-> Str(<<>>),
                unit |-> Str(<<>>),
                richDescription |-> Str(<<>>)])]

\* removeItem (index counts from 1 here)
removeItem(q, index) ==
    [q EXCEPT !.items.a =
        [idx \in 1..(Len(q.items.a) - 1) |->
            IF idx < index THEN q.items.a[idx] ELSE q.items.a[idx + 1]]]

\* prepareQuoteForDocument: the defaults of the business terms
DocumentDefault(k) ==
    CASE k = "packing" ->
           <<"E", "x", "p", "o", "r", "t", " ", "s", "e", "a", "w", "o", "r", "t", "h", "y">>
      [] k = "deliveryTerms" -> <<"Y", "o", "u", "r", " ", "b", "e", "s", "t">>
      [] k = "currency" -> <<"E", "U", "R", "/", "U", "S", "D">>
      [] k = "paymentTerms" -> <<"T", "o", " ", "b", "e", " ", "a", "g", "r", "e", "e", "d">>
      [] k = "guarantees" -> <<"1", "2", "/", "1", "8", " ", "m", "o", "n", "t", "h", "s">>
      [] k = "origin" -> <<"T", "B", "A">>

\* prepareQuoteForDocument: the metadata keys filled with ""
EmptiedKeys ==
    {"rfqNumber", "issueDate", "dueDate", "subject", "packingRequirements",
     "accessoriesInclusions"}

DefaultedKeys ==
    {"packing", "deliveryTerms", "currency", "paymentTerms", "guarantees", "origin"}

\* prepareQuoteForDocument, ensureSupplier
ensureSupplier(supplier) ==
    [t |-> "object",
     f |-> [k \in ContactKeys \cup ContactExtraKeys |->
               Coalesce(IF supplier.t = "object" THEN supplier.f[k] ELSE Undef,
                        Str(<<>>))]]

\* prepareQuoteForDocument
prepareQuoteForDocument(q) ==
    [t |-> "object",
     fullText |-> q.fullText,
     totals |-> q.totals,
     remarks |-> Coalesce(q.remarks, Str(<<>>)),
     metadata |->
         [t |-> "object",
          supplier |-> ensureSupplier(q.metadata.supplier),
          customer |-> Undef,
          f |-> [k \in DOMAIN q.metadata.f |->
                    IF k \in EmptiedKeys THEN Coalesce(q.metadata.f[k], Str(<<>>))
                    ELSE IF k \in DefaultedKeys
                    THEN Coalesce(q.metadata.f[k], Str(DocumentDefault(k)))
                    ELSE Undef]],
     items |->
         [t |-> "array",
          a |-> [i \in 1..Len(q.items.a) |->
                    [t |-> "object",
                     itemNumber |-> Coalesce(q.items.a[i].itemNumber, Str(<<>>)),
                     description |-> q.items.a[i].description,
                     quantity |-> Coalesce(q.items.a[i].quantity, Null),
                     unitPrice |-> Undef,
                     totalPrice |-> Undef,
                     notes |-> Coalesce(q.items.a[i].notes, Str(<<>>)),
                     unit |-> Undef,
                     richDescription |->
                         Coalesce(q.items.a[i].richDescription, Str(<<>>))]]]]

\* handleDownload: body: JSON.stringify({ quote: preparedQuote, brand, reviewer })
RequestBody(q) ==
    [t |-> "object",
     quote |-> JsonRoundTrip(prepareQuoteForDocument(q)),
     brand |-> EmptyObject,
     reviewer |-> Str(<<>>)]

\* render-quote: requestSchema.safeParse(json).success
requestSchemaOk(json) ==
    /\ json.t = "object"
    /\ json.brand.t \in {"undefined", "object"}
    /\ json.reviewer.t \in {"undefined", "string"}

\* render-quote: NextResponse.json({ error: "Solicitud invalida" }, { status: 400 })
InvalidRequestResponse ==
    [status |-> 400, error |-> Message("Solicitud invalida"), body |-> Undef]

\* A slip in the catch block: the message of the error is not passed on.
renderErrorResponse_Unknown(message) ==
    [status |-> 500, error |-> Message("Error desconocido"), body |-> Undef]

\* render-quote, catch: NextResponse.json({ error: message }, { status: 500 })
renderErrorResponse(message) ==
    [status |-> 500, error |-> Message(message), body |-> Undef]

\* render-quote: the PDF response; its body is drawn from the quote buildPdf got
PdfResponse(q) == [status |-> 200, error |-> Undef, body |-> q]

PdfFailure == "pdfkit error"

\* handleDownload: payload.error ?? "No se pudo generar el PDF"
downloadError(resp) ==
    IF IsNullish(resp.error) THEN "No se pudo generar el PDF" ELSE resp.error.m

\* the documents the extraction of an uploaded file may give
Uploads ==
    { DocOf(Str(<<"A">>), Undef,
            ArrayOf(<<ItemOf(Undef, Str(<<"A">>), Str(<<"2", ",", "5">>), Undef, Undef,
                             Undef, Str(<<"A">>), Undef)>>),
            Undef, Undef),
      DocOf(Str(<<"A">>), Undef, ArrayOf(<<DescribedItem(Str(<<" ">>))>>), Undef, Undef),
      DocOf(Str(<<"A">>), Undef, ArrayOf(<<>>), Undef, Undef),
      DocOf(Str(<<"A">>),
            MetadataOf(ContactOf(Str(<<"A">>), Undef, Str(<<"A">>)), Undef, Undef, Undef,
                       Str(<<"A">>), Undef),
            ArrayOf(<<GoodItem,
                      ItemOf(Str(<<"2">>), Str(<<"A">>), Large, Num(Fin(3, 0)), Undef,
                             Undef, Undef, Undef)>>),
            Undef, Str(<<"A">>)) }

\* process-quote: what normalizeExtraction makes of each of them
Extractions == {normalizeExtraction(extraction) : extraction \in Uploads}

\* what the user types into a field of an item
TypedValues == {<<" ">>, <<"2", ",", "5", " ">>}

InitPage ==
    /\ PageClosed
    /\ NoUploads
    /\ NoProcess
    /\ NoTotals
    /\ NoCalls
    /\ raw = Undef
    /\ result = NoResult
    /\ first = NoResult
    /\ pc = "idle"
    /\ numIn = Undef
    /\ numOut = Undef
    /\ numPc = "idle"
    /\ numeral = NoNumeral

\* handleFile, with process-quote: a file of an unsupported type, or the
\* extraction of the file normalized and stored, or its error shown
\* (one upload at a time, the response handled before anything else happens:
\* isProcessing is raised and lowered within the step; HandleFileStart and
\* HandleFileResponse are the two halves of the step for uploads that overlap)
HandleFile ==
    /\ \/ /\ error' = Message("Unsupported format. Use PDF or images (png, jpg, webp, tiff).")
          /\ UNCHANGED quote
       \/ \E returned \in Extractions :
              IF returned.ok
              THEN quote' = JsonRoundTrip(returned.data) /\ error' = Null
              ELSE error' = Message(returned.message) /\ UNCHANGED quote
    /\ UNCHANGED <<isDownloading, downloaded, edits, request, serverPc, normalized,
                   rendered, response, callVars, numberVars, concurrentVars, totalsVars, processVars, uploadVars>>

\* an edit of the page leaves everything but the quote alone
EditFrame ==
    /\ edits < MaxEdits
    /\ quote # Null
    /\ edits' = edits + 1
    /\ UNCHANGED <<isDownloading, error, downloaded, request, serverPc, normalized,
                   rendered, response, callVars, numberVars, concurrentVars, totalsVars, processVars, uploadVars>>

HandleItemChange ==
    /\ EditFrame
    /\ \E index \in 1..Len(quote.items.a), field \in ItemFields, value \in TypedValues :
           quote' = handleItemChange(quote, index, field, value)

AddItem ==
    /\ EditFrame
    /\ quote' = addItem(quote)

RemoveItem ==
    /\ EditFrame
    /\ \E index \in 1..Len(quote.items.a) : quote' = removeItem(quote, index)

\* handleDownload up to the fetch: the button is disabled while isDownloading
HandleDownload ==
    /\ quote # Null
    /\ ~isDownloading
    /\ isDownloading' = TRUE
    /\ error' = Null
    /\ downloaded' = FALSE
    /\ request' = RequestBody(quote)
    /\ rendered' = Undef
    /\ normalized' = NoResult
    /\ UNCHANGED <<quote, edits, serverPc, response, callVars, numberVars, concurrentVars, totalsVars, processVars, uploadVars>>

\* render-quote POST, lines 30-38: the body is checked and its quote
\* normalized; an error thrown there is caught at line 56
RenderNormalize ==
    /\ request # Undef
    /\ serverPc = "idle"
    /\ IF ~requestSchemaOk(request)
       THEN /\ response' = InvalidRequestResponse
            /\ request' = Undef
            /\ UNCHANGED <<serverPc, normalized>>
       ELSE /\ \E returned \in {normalizeExtraction(request.quote)} :
                   /\ normalized' = returned
                   /\ serverPc' = IF returned.ok THEN "normalized" ELSE "failed"
            /\ UNCHANGED <<request, response>>
    /\ UNCHANGED <<quote, isDownloading, error, downloaded, edits, rendered,
                   callVars, numberVars, concurrentVars, totalsVars, processVars, uploadVars>>

\* render-quote POST, lines 39-55: buildPdf is called with the normalized
\* quote; it resolves, or it rejects and the catch block answers
RenderBuildPdf ==
    /\ serverPc = "normalized"
    /\ rendered' = normalized.data
    /\ \E resolved \in BOOLEAN :
           response' = IF resolved THEN PdfResponse(normalized.data)
                       ELSE renderErrorResponse(PdfFailure)
    /\ serverPc' = "idle"
    /\ request' = Undef
    /\ UNCHANGED <<quote, isDownloading, error, downloaded, edits, normalized,
                   callVars, numberVars, concurrentVars, totalsVars, processVars, uploadVars>>

\* render-quote POST, lines 56-60: the error of normalizeExtraction is answered
RenderCatch ==
    /\ serverPc = "failed"
    /\ response' = renderErrorResponse(normalized.message)
    /\ serverPc' = "idle"
    /\ request' = Undef
    /\ UNCHANGED <<quote, isDownloading, error, downloaded, edits, normalized, rendered,
                   callVars, numberVars, concurrentVars, totalsVars, processVars, uploadVars>>

\* handleDownload from the response on: lines 192-213
HandleDownloadResponse ==
    /\ response # Undef
    /\ IF response.status # 200
       THEN error' = Message(downloadError(response)) /\ UNCHANGED downloaded
       ELSE downloaded' = TRUE /\ UNCHANGED error
    /\ isDownloading' = FALSE
    /\ response' = Undef
    /\ UNCHANGED <<quote, edits, request, serverPc, normalized, rendered,
                   callVars, numberVars, concurrentVars, totalsVars, processVars, uploadVars>>

NextPage ==
    \/ HandleFile
    \/ HandleItemChange
    \/ AddItem
    \/ RemoveItem
    \/ HandleDownload
    \/ RenderNormalize
    \/ RenderBuildPdf
    \/ RenderCatch
    \/ HandleDownloadResponse

SpecPage == InitPage /\ [][NextPage]_vars

---------------------------------------------------------------------------
(* Overlapping uploads on the page: the dropzone stays enabled while a      *)
(* request is under way, so handleFile may be started again before the      *)
(* response to an earlier start was handled                                 *)

\* Most uploads started on the page.
MaxUploads == 2

UnsupportedFormat == "Unsupported format. Use PDF or images (png, jpg, webp, tiff)."

\* process-quote: what normalizeExtraction makes of the extraction of a file
ExtractionOf == [file \in Uploads |-> normalizeExtraction(file)]

InitUpload ==
    /\ PageClosed
    /\ NoUploads
    /\ NoProcess
    /\ NoTotals
    /\ NoCalls
    /\ raw = Undef
    /\ result = NoResult
    /\ first = NoResult
    /\ pc = "idle"
    /\ numIn = Undef
    /\ numOut = Undef
    /\ numPc = "idle"
    /\ numeral = NoNumeral

UploadFrame ==
    UNCHANGED <<isDownloading, downloaded, edits, request, serverPc, normalized,
                rendered, response, callVars, numberVars, concurrentVars, totalsVars,
                processVars>>

\* handleFile lines 36-50: a file of an unsupported type is refused; for any
\* other file the error is cleared, isProcessing raised and the request sent
HandleFileStart ==
    /\ \/ /\ error' = Message(UnsupportedFormat)
          /\ UNCHANGED <<isProcessing, fetches>>
       \/ /\ Len(fetches) < MaxUploads
          /\ \E file \in Uploads :
                 fetches' = Append(fetches, [file |-> file, done |-> FALSE])
          /\ error' = Null
          /\ isProcessing' = TRUE
    /\ UNCHANGED quote
    /\ UploadFrame

\* handleFile lines 55-67 for the k-th upload: the response is handled (the
\* quote stored, or the error shown) and isProcessing lowered
HandleFileResponse(k) ==
    /\ ~fetches[k].done
    /\ \E returned \in {ExtractionOf[fetches[k].file]} :
           IF returned.ok
           THEN quote' = JsonRoundTrip(returned.data) /\ UNCHANGED error
           ELSE error' = Message(returned.message) /\ UNCHANGED quote
    /\ isProcessing' = FALSE
    /\ fetches' = [fetches EXCEPT ![k].done = TRUE]
    /\ UploadFrame

NextUpload ==
    \/ HandleFileStart
    \/ \E k \in 1..Len(fetches) : HandleFileResponse(k)
    \/ HandleItemChange
    \/ AddItem
    \/ RemoveItem

SpecUpload == InitUpload /\ [][NextUpload]_vars

---------------------------------------------------------------------------
(* Concurrent calls of normalizeExtraction (one per request being handled) *)

\* Most calls under way at the same time.
MaxCalls == 2

CallIds == 1..MaxCalls

\* the inputs of the concurrent calls: valid and invalid documents, with and
\* without a totalPrice to derive
ConcurrentInputs ==
    { DocOf(Str(<<"A">>), Undef, ArrayOf(<<GoodItem>>), Undef, Undef),
      DocOf(Str(<<"A">>), Undef,
            ArrayOf(<<ItemOf(Str(<<"7">>), Str(<<"A">>), Str(<<"2", ",", "5">>),
                             Num(Fin(3, 0)), Undef, Str(<<" ">>), Undef, Undef)>>),
            TotalsOf(Undef, Num(Fin(12345, 3)), Undef), Str(<<"A", " ">>)),
      DocOf(Str(<<>>), Undef, ArrayOf(<<>>), Undef, Undef),
      DocOf(Str(<<"A">>), Null, ArrayOf(<<DescribedItem(Undef)>>), Undef, Undef) }

\* A slip: parsed is kept in one binding of the module, shared by all calls.
localFrame_Module(call) == 1

\* const parsed is a local binding: every call has a frame of its own
localFrame(call) == call

NoFrame == [value |-> Undef, issues |-> <<>>, free |-> TRUE]

InitConcurrent ==
    /\ calls \in [CallIds -> [input : ConcurrentInputs, given : ConcurrentInputs,
                              pc : {"called"}, result : {NoResult}]]
    /\ \A call \in CallIds : calls[call].given = calls[call].input
    /\ frames = [slot \in CallIds |-> NoFrame]
    /\ PageClosed
    /\ NoUploads
    /\ NoProcess
    /\ NoTotals
    /\ raw = Undef
    /\ result = NoResult
    /\ first = NoResult
    /\ pc = "idle"
    /\ numIn = Undef
    /\ numOut = Undef
    /\ numPc = "idle"
    /\ numeral = NoNumeral

\* normalizeExtraction line 155: const parsed = quoteExtractionSchema.safeParse(raw)
SafeParse(call) ==
    /\ calls[call].pc = "called"
    /\ \E parsed \in {quoteExtractionSchema(calls[call].input)} :
           frames' = [frames EXCEPT ![localFrame(call)] = parsed]
    /\ calls' = [calls EXCEPT ![call].pc = "parsed"]
    /\ UNCHANGED <<callVars, numberVars, pageVars, totalsVars, processVars, uploadVars>>

\* normalizeExtraction lines 156-166: throw, or return the Document
ReturnOrThrow(call) ==
    /\ calls[call].pc = "parsed"
    /\ calls' = [calls EXCEPT ![call].pc = "done",
                              ![call].result = normalizeParsed(frames[localFrame(call)])]
    /\ UNCHANGED <<frames, callVars, numberVars, pageVars, totalsVars, processVars, uploadVars>>

NextConcurrent == \E call \in CallIds : SafeParse(call) \/ ReturnOrThrow(call)

SpecConcurrent == InitConcurrent /\ [][NextConcurrent]_vars

---------------------------------------------------------------------------
(* computeTotals (quoteSchema.ts), called by the page with the items and the *)
(* totals of its quote                                                       *)

Zero == Num(Fin(0, 0))

\* item.totalPrice ?? (quantity != null && unitPrice != null
\*                        ? quantity * unitPrice : 0), then amount ?? 0
itemAmount(item) ==
    LET product == IF ~IsNullish(item.quantity) /\ ~IsNullish(item.unitPrice)
                   THEN Num(Times(item.quantity.n, item.unitPrice.n))
                   ELSE Zero
    IN  Coalesce(Coalesce(item.totalPrice, product), Zero)

\* items.reduce((sum, item) => sum + amount, 0) over the first n items
RECURSIVE reduceAmounts(_, _)
reduceAmounts(items, n) ==
    IF n = 0 THEN Fin(0, 0)
    ELSE Plus(reduceAmounts(items, n - 1), itemAmount(items[n]).n)

\* subtotal + (taxes ?? 0) + (shipping ?? 0) - (discount ?? 0)
sumOfTotals(subtotal, taxes, shipping, discount) ==
    Minus(Plus(Plus(subtotal, Coalesce(taxes, Zero).n), Coalesce(shipping, Zero).n),
          Coalesce(discount, Zero).n)

\* A slip in computeTotals: a subtotal the caller supplied is kept.
computeTotals_KeepSubtotal(items, current) ==
    LET subtotal == IF IsNullish(current.f.subtotal)
                    THEN reduceAmounts(items, Len(items))
                    ELSE current.f.subtotal.n
        computed == sumOfTotals(subtotal, current.f.taxes, current.f.shipping,
                                current.f.discount)
        total    == Coalesce(Coalesce(current.f.total, Null), Num(computed))
    IN  [t |-> "object",
         f |-> [k \in TotalsKeys |->
                   CASE k = "subtotal" -> Num(ToFixed2(subtotal))
                     [] k = "total" -> Num(ToFixed2(total.n))
                     [] OTHER -> Coalesce(current.f[k], Null)]]

\* computeTotals
computeTotals(items, current) ==
    LET subtotal == reduceAmounts(items, Len(items))
        taxes    == Coalesce(current.f.taxes, Null)
        shipping == Coalesce(current.f.shipping, Null)
        discount == Coalesce(current.f.discount, Null)
        computed == sumOfTotals(subtotal, taxes, shipping, discount)
        total    == Coalesce(Coalesce(current.f.total, Null), Num(computed))
    IN  [t |-> "object",
         f |-> [k \in TotalsKeys |->
                   CASE k = "subtotal" -> Num(ToFixed2(subtotal))
                     [] k = "taxes" -> taxes
                     [] k = "shipping" -> shipping
                     [] k = "discount" -> discount
                     [] k = "total" ->
                            IF ~IsNullish(total) THEN Num(ToFixed2(total.n))
                            ELSE Num(ToFixed2(computed))]]

\* the items and totals computeTotals is called with: amounts with up to three
\* decimals, given or to be derived, and large amounts whose sum overflows
TotalsInputs ==
    LET Priced(q, u, t) == ItemOf(Undef, Str(<<"A">>), q, u, t, Undef, Undef, Undef)
        Current(subtotal, taxes, shipping, discount, total) ==
            [t |-> "object",
             f |-> [k \in TotalsKeys |->
                       CASE k = "subtotal" -> subtotal
                         [] k = "taxes" -> taxes
                         [] k = "shipping" -> shipping
                         [] k = "discount" -> discount
                         [] k = "total" -> total]]
        decimalItems ==
            {Priced(Num(Fin(2, 0)), Num(Fin(3, 0)), Null),
             Priced(Num(Fin(15, 1)), Num(Fin(125, 3)), Undef),
             Priced(Num(Fin(2, 0)), Num(Fin(3, 0)), Num(Fin(999, 2))),
             Priced(Num(Fin(2, 0)), Null, Null),
             Priced(Null, Null, Num(Fin(4, 3)))}
        decimalTotals ==
            {Current(subtotal, taxes, shipping, discount, total) :
                subtotal \in {Undef, Num(Fin(100, 0))},
                taxes \in {Undef, Null, Num(Fin(4, 3)), Num(Fin(12, 1))},
                shipping \in {Undef, Num(Fin(5, 0))},
                discount \in {Undef, Num(Fin(5, 1))},
                total \in {Undef, Null, Num(Fin(1004, 3)), Num(Fin(20, 0))}}
        largeItems == {Priced(Null, Null, Large), Priced(Null, Null, Num(Fin(2, 0)))}
        largeTotals ==
            {Current(Undef, taxes, Undef, Undef, total) :
                taxes \in {Undef, Large}, total \in {Undef, Large}}
    IN  (SeqsUpTo(decimalItems, MaxItems) \X decimalTotals)
            \cup (SeqsUpTo(largeItems, MaxItems) \X largeTotals)

InitTotals ==
    /\ \E in \in TotalsInputs : totalsItems = in[1] /\ currentTotals = in[2]
    /\ computedTotals = Undef
    /\ PageClosed
    /\ NoUploads
    /\ NoProcess
    /\ NoCalls
    /\ raw = Undef
    /\ result = NoResult
    /\ first = NoResult
    /\ pc = "idle"
    /\ numIn = Undef
    /\ numOut = Undef
    /\ numPc = "idle"
    /\ numeral = NoNumeral

\* the page computes the totals of its quote:
\* useMemo(() => computeTotals(quote.items, quote.totals))
ComputeTotals ==
    /\ computedTotals = Undef
    /\ computedTotals' = computeTotals(totalsItems, currentTotals)
    /\ UNCHANGED <<totalsItems, currentTotals, callVars, numberVars, pageVars,
                   concurrentVars, processVars, uploadVars>>

NextTotals == ComputeTotals

SpecTotals == InitTotals /\ [][NextTotals]_vars

---------------------------------------------------------------------------
(* The process-quote handler (POST) and enhanceItemDescriptions *)

\* Most entries in the answer of the enrichment call.
MaxEntries == 2

\* 15 * 1_024 * 1_024
MAX_FILE_SIZE_BYTES == 15728640

SUPPORTED_MIME_TYPES ==
    {"application/pdf", "image/png", "image/jpeg", "image/jpg", "image/webp", "image/tiff"}

\* NextResponse.json({ error: message }, { status })
ErrorAnswer(status, message) ==
    [status |-> status, error |-> Message(message), data |-> Undef]

\* NextResponse.json({ data })
DataAnswer(data) == [status |-> 200, error |-> Undef, data |-> data]

\* A slip in the checks of the file: the size limit is missing.
fileChecks_NoSizeLimit(fileEntry) ==
    IF fileEntry.t # "file"
    THEN ErrorAnswer(400, "No se adjunto ningun archivo.")
    ELSE IF fileEntry.size = 0
    THEN ErrorAnswer(400, "El archivo esta vacio.")
    ELSE IF (IF fileEntry.type = "" THEN "application/octet-stream" ELSE fileEntry.type)
                \notin SUPPORTED_MIME_TYPES
    THEN ErrorAnswer(400, "Formato no soportado. Usa PDF o imagenes (png, jpg, webp, tiff).")
    ELSE Undef

\* POST lines 897-915: the answer of the first check that fails, or undefined
fileChecks(fileEntry) ==
    IF fileEntry.t # "file"
    THEN ErrorAnswer(400, "No se adjunto ningun archivo.")
    ELSE IF fileEntry.size = 0
    THEN ErrorAnswer(400, "El archivo esta vacio.")
    ELSE IF fileEntry.size > MAX_FILE_SIZE_BYTES
    THEN ErrorAnswer(400, "El archivo supera el limite de 15 MB.")
    ELSE IF (IF fileEntry.type = "" THEN "application/octet-stream" ELSE fileEntry.type)
                \notin SUPPORTED_MIME_TYPES
    THEN ErrorAnswer(400, "Formato no soportado. Usa PDF o imagenes (png, jpg, webp, tiff).")
    ELSE Undef

\* POST lines 1001-1012: the answer of the catch block to a thrown error; an
\* error of the OpenAI client carries a status, any other error gives 500
catchAnswer(thrown) ==
    IF thrown.api THEN ErrorAnswer(thrown.status, thrown.message)
    ELSE ErrorAnswer(500, thrown.message)

\* an Error thrown by the handler's own code: it carries no status
ThrownError(message) == [api |-> FALSE, status |-> 0, message |-> message]

\* an error of the OpenAI client
ApiError == [api |-> TRUE, status |-> 429, message |-> "Rate limit reached"]

\* the requests: the key configured or not, a body that is form data or not,
\* and under "file" nothing, a text, or a file of some size and type
ProcessRequests ==
    [apiKey : BOOLEAN, form : BOOLEAN,
     fileEntry : {Null, Str(<<"A">>)}
                    \cup [t : {"file"},
                          size : {0, 1, MAX_FILE_SIZE_BYTES, MAX_FILE_SIZE_BYTES + 1},
                          type : {"application/pdf", "image/png", "text/plain", ""}]]

\* how the call of the extraction model ends: an error of the client, a
\* response without output_text, a text that holds no JSON, or a JSON value
ModelOutcomes ==
    {[kind |-> "apiError"], [kind |-> "noText"], [kind |-> "noJson"]}
        \cup {[kind |-> "json", value |-> v] : v \in Uploads}

\* the six fields of an enrichment entry, in the order they are formatted
FieldOrder ==
    <<"item", "brandManufacturer", "model", "application", "voltageFrequency",
      "referencePartNumber">>

FieldLabel(k) ==
    CASE k = "item" -> "Item"
      [] k = "brandManufacturer" -> "Brand/Manufacturer"
      [] k = "model" -> "Model"
      [] k = "application" -> "Application"
      [] k = "voltageFrequency" -> "Voltage/Frequency"
      [] k = "referencePartNumber" -> "Reference Part No."

\* format(label, value) throws a TypeError when value is truthy and no string
formatThrows(value) == value.t = "number" /\ value.n # Fin(0, 0)

\* format(label, value): `${label}: ${value && value.trim() ? value.trim() : "-"}`
\* (the label is kept as one element of the text)
format(label, value) ==
    <<label, ":", " ">>
        \o (IF value.t = "string" /\ Len(Trim(value.s)) > 0 THEN Trim(value.s)
            ELSE <<"-">>)

\* [format(...), ...].join("\n") over the first n fields
RECURSIVE formatted(_, _)
formatted(fields, n) ==
    IF n = 0 THEN <<>>
    ELSE (IF n = 1 THEN <<>> ELSE formatted(fields, n - 1) \o <<"\n">>)
             \o format(FieldLabel(FieldOrder[n]), fields[FieldOrder[n]])

\* n >= k for a finite number n and an integer k
AtLeast(n, k) ==
    IF n.e <= 0 THEN n.m * Pow10(-n.e) >= k ELSE n.m >= k * Pow10(n.e)

\* lines 1109-1115: the entry is passed over (continue)
entrySkipped(entry, length) ==
    \/ IsNullish(entry)
    \/ entry.index.t \notin {"number", "nan"}
    \/ /\ entry.index.t = "number"
       /\ entry.index.n.k = "fin"
       /\ (entry.index.n.m < 0 \/ AtLeast(entry.index.n, length))
    \/ IsNullish(entry.fields)
    \/ entry.fields.t # "object"

\* lines 1119-1130 throw a TypeError: a field that is truthy and no string has
\* no trim, and quote.items[index] is undefined unless index is an integer
entryThrows(entry) ==
    \/ \E n \in 1..Len(FieldOrder) : formatThrows(entry.fields.f[FieldOrder[n]])
    \/ entry.index.t = "nan"
    \/ entry.index.n.e > 0

\* the loop of lines 1108-1131 from entry i on; a TypeError ends it (the catch
\* block of line 1133 logs it) with the items as they are by then
RECURSIVE enrichItems(_, _, _)
enrichItems(items, entries, i) ==
    IF i > Len(entries) THEN items
    ELSE IF entrySkipped(entries[i], Len(items)) THEN enrichItems(items, entries, i + 1)
    ELSE IF entryThrows(entries[i]) THEN items
    ELSE enrichItems(
             [items EXCEPT ![entries[i].index.n.m + 1].richDescription =
                 Str(formatted(entries[i].fields.f, Len(FieldOrder)))],
             entries, i + 1)

\* lines 1020-1026: is there an item whose trimmed description is not empty
hasItemsToImprove(q) ==
    \E i \in 1..Len(q.items.a) :
        /\ q.items.a[i].description.t = "string"
        /\ Len(Trim(q.items.a[i].description.s)) > 0

\* enhanceItemDescriptions from line 1105 on: what is made of the quote when
\* the call of the model ended with outcome
applyEnrichment(q, outcome) ==
    IF outcome.kind # "json" THEN q
    ELSE IF outcome.value.t # "object" THEN q
    ELSE IF outcome.value.items.t # "array" THEN q
    ELSE [q EXCEPT !.items.a = enrichItems(q.items.a, outcome.value.items.a, 1)]

EnrichmentKeys ==
    {"item", "brandManufacturer", "model", "application", "voltageFrequency",
     "referencePartNumber"}

\* the entries the enrichment model may answer with: an index inside or
\* outside the list, negative, fractional or no number; fields that are
\* texts, or missing, or hold a number
EnrichmentEntries ==
    LET Fields(item, brand, model) ==
            [t |-> "object",
             f |-> [k \in EnrichmentKeys |->
                       CASE k = "item" -> item
                         [] k = "brandManufacturer" -> brand
                         [] k = "model" -> model
                         [] OTHER -> Undef]]
        fields == {Null,
                   Fields(Str(<<"A", " ">>), Null, Str(<<" ">>)),
                   Fields(Str(<<"A">>), Str(<<"A">>), Num(Fin(5, 0)))}
        indexes == {Num(Fin(0, 0)), Num(Fin(1, 0)), Num(Fin(2, 0)), Num(Fin(-1, 0)),
                    Num(Fin(5, 1)), Str(<<"0">>)}
    IN  {Null} \cup [t : {"object"}, index : indexes, fields : fields]

\* how the call of the enrichment model ends
EnrichmentOutcomes ==
    {[kind |-> "apiError"], [kind |-> "noJson"]}
        \cup {[kind |-> "json", value |-> v] :
                v \in {Null, Str(<<"A">>),
                       [t |-> "object", items |-> Undef],
                       [t |-> "object", items |-> Null],
                       [t |-> "object", items |-> Num(Fin(5, 0))]}
                      \cup {[t |-> "object", items |-> ArrayOf(entries)] :
                              entries \in SeqsUpTo(EnrichmentEntries, MaxEntries)}}

InitProcess ==
    /\ upload \in ProcessRequests
    /\ processPc = "received"
    /\ openaiCalls = <<>>
    /\ modelOutput = Undef
    /\ extracted = NoResult
    /\ enrichment = Undef
    /\ processResponse = Undef
    /\ PageClosed
    /\ NoUploads
    /\ NoTotals
    /\ NoCalls
    /\ raw = Undef
    /\ result = NoResult
    /\ first = NoResult
    /\ pc = "idle"
    /\ numIn = Undef
    /\ numOut = Undef
    /\ numPc = "idle"
    /\ numeral = NoNumeral

ProcessFrame ==
    UNCHANGED <<upload, callVars, numberVars, pageVars, concurrentVars, totalsVars,
                uploadVars>>

\* POST lines 886-915: the key, the body and the file are checked
ProcessCheck ==
    /\ processPc = "received"
    /\ \E answer \in {IF ~upload.apiKey
                      THEN ErrorAnswer(500, "Configura OPENAI_API_KEY antes de procesar documentos.")
                      ELSE IF ~upload.form
                      THEN catchAnswer(ThrownError("Failed to parse body as FormData."))
                      ELSE fileChecks(upload.fileEntry)} :
           IF answer = Undef
           THEN processPc' = "checked" /\ UNCHANGED processResponse
           ELSE processPc' = "answered" /\ processResponse' = answer
    /\ UNCHANGED <<openaiCalls, modelOutput, extracted, enrichment>>
    /\ ProcessFrame

\* the calls of the OpenAI client of lines 931-989: an image goes into the
\* request, any other file is uploaded first
extractionCalls(type) ==
    IF type \in {"image/png", "image/jpeg", "image/jpg", "image/webp", "image/tiff"}
    THEN <<"responses.create">>
    ELSE <<"files.create", "responses.create">>

\* POST lines 917-997: the extraction model is called; its answer is parsed
\* and normalized; whatever is thrown on the way is answered by the catch block
ProcessExtract ==
    /\ processPc = "checked"
    /\ \E outcome \in ModelOutcomes :
           /\ openaiCalls' = openaiCalls \o extractionCalls(upload.fileEntry.type)
           /\ IF outcome.kind = "json"
              THEN \E returned \in {normalizeExtraction(outcome.value)} :
                       /\ modelOutput' = outcome.value
                       /\ extracted' = returned
                       /\ IF returned.ok
                          THEN processPc' = "normalized" /\ UNCHANGED processResponse
                          ELSE /\ processPc' = "answered"
                               /\ processResponse' =
                                      catchAnswer(ThrownError(returned.message))
              ELSE /\ processPc' = "answered"
                   /\ processResponse' =
                          catchAnswer(
                              CASE outcome.kind = "apiError" -> ApiError
                                [] outcome.kind = "noText" ->
                                       ThrownError("La API no devolvio texto procesado")
                                [] outcome.kind = "noJson" ->
                                       ThrownError("La respuesta del modelo no contiene JSON valido."))
                   /\ UNCHANGED <<modelOutput, extracted>>
    /\ UNCHANGED enrichment
    /\ ProcessFrame

\* POST lines 998-1000 with enhanceItemDescriptions: without an item to
\* improve the quote is answered as it is; otherwise the enrichment model is
\* called and the quote answered is what the loop made of it
ProcessEnhance ==
    /\ processPc = "normalized"
    /\ IF ~hasItemsToImprove(extracted.data)
       THEN /\ processResponse' = DataAnswer(extracted.data)
            /\ UNCHANGED <<openaiCalls, enrichment>>
       ELSE \E outcome \in EnrichmentOutcomes :
                /\ openaiCalls' = Append(openaiCalls, "responses.create")
                /\ enrichment' = outcome
                /\ processResponse' = DataAnswer(applyEnrichment(extracted.data, outcome))
    /\ processPc' = "answered"
    /\ UNCHANGED <<modelOutput, extracted>>
    /\ ProcessFrame

NextProcess == ProcessCheck \/ ProcessExtract \/ ProcessEnhance

SpecProcess == InitProcess /\ [][NextProcess]_vars

---------------------------------------------------------------------------
(* Properties of normalizeNumber *)

WrittenDone == numPc = "done" /\ numeral # NoNumeral

\* C7 as stated: every numeral written in the comma-decimal or the
\* period-decimal convention, with or without a decimal part, with any number
\* of thousands separators and an optional currency symbol, is returned as the
\* magnitude its writer intended.
C7_EveryNumeralRecovered == WrittenDone => numOut = Intended(numeral)

\* C7 amended: the intended magnitude is returned for every written numeral
\* that has a decimal part (with any number of thousands separators) or that
\* has no thousands separator at all.
C7_NumeralWithDecimalPartRecovered ==
    (WrittenDone /\ (Len(numeral.frac) > 0 \/ ~HasThousandsSep(numeral)))
        => numOut = Intended(numeral)

\* a numeral with two thousands separators, a decimal part and a currency
\* symbol was coerced to its magnitude
C7_Witness ==
    /\ WrittenDone
    /\ Len(numeral.int) = 7 /\ numeral.grouped /\ numeral.currency
    /\ Len(numeral.frac) > 0
    /\ numOut = Intended(numeral)

\* C8: normalizeNumber returns, for an input of any shape, a finite number or
\* null; a finite number is returned unchanged; NaN and +/-Infinity give null.
C8_NumberTotal ==
    numPc = "done" =>
        /\ numOut = Null \/ IsFiniteNum(numOut)
        /\ IsFiniteNum(numIn) => numOut = numIn
        /\ (numIn.t \in {"number", "nan"} /\ ~IsFiniteNum(numIn)) => numOut = Null

\* Infinity was handed in and null came back
C8_Witness == numPc = "done" /\ numIn = Num(Inf(FALSE)) /\ numOut = Null

StringDone == numPc = "done" /\ numIn.t = "string"

\* no comma stands after the last period of s
PeriodIsRightmost(s) ==
    LastIndexOf(s, ",") = -1 \/ LastIndexOf(s, ",") < LastIndexOf(s, ".")

\* the number that t, written [-]digits[.digits] with at least one digit,
\* stands for when the period is the decimal point; null for any other t
PeriodDecimalValue(t) ==
    LET neg    == Len(t) > 0 /\ t[1] = "-"
        body   == IF neg THEN Tail(t) ELSE t
        dot    == LastIndexOf(body, ".")
        int    == IF dot = -1 THEN body ELSE SubSeq(body, 1, dot)
        frac   == IF dot = -1 THEN <<>> ELSE SubSeq(body, dot + 2, Len(body))
        digits == int \o frac
    IN  IF Len(digits) = 0 \/ \E i \in 1..Len(digits) : digits[i] \notin Digits
        THEN Null
        ELSE LET m == DigitsToInt(digits)
                 n == MakeNumber(IF neg THEN -m ELSE m, Len(frac))
             IN  IF n.k = "fin" THEN Num(n) ELSE Null

\* C21: when no comma stands after the last period of the stripped string
\* (a period is the rightmost separator, or there is no comma), the result is
\* the number read with every comma deleted and the period as the decimal
\* point; "1.234" gives 1.234 and not 1234.
C21_PeriodIsDecimal ==
    (StringDone /\ PeriodIsRightmost(Cleaned(numIn.s)))
        => numOut = PeriodDecimalValue(RemoveAll(Cleaned(numIn.s), ","))

\* "1.234" was coerced to 1.234
C21_Witness ==
    /\ numPc = "done"
    /\ numIn = Str(<<"1", ".", "2", "3", "4">>)
    /\ numOut = Num(Fin(1234, 3))

\* characters the regular expression strips: a currency symbol, a space, a
\* letter (also the exponent letter of Number) and a plus sign
StrippedChars == {"$", " ", "e", "+"}

\* s with c put in before position i + 1
InsertAt(s, i, c) == SubSeq(s, 1, i) \o <<c>> \o SubSeq(s, i + 1, Len(s))

\* s without its i-th character
DeleteAt(s, i) == SubSeq(s, 1, i - 1) \o SubSeq(s, i + 1, Len(s))

\* C22: for a string input the result depends only on the digits, commas,
\* periods and minus signs in it: putting any other character in at any
\* position, or taking one out, gives the same result.
C22_OnlyNumericCharsCount ==
    StringDone =>
        /\ \A i \in 0..Len(numIn.s), c \in StrippedChars :
               normalizeNumber(Str(InsertAt(numIn.s, i, c))) = numOut
        /\ \A i \in 1..Len(numIn.s) :
               numIn.s[i] \notin NumericChars
                   => normalizeNumber(Str(DeleteAt(numIn.s, i))) = numOut

\* a string with a stripped character between its numeric ones was coerced to
\* the number its numeric characters spell
C22_Witness ==
    /\ numPc = "done"
    /\ numIn = Str(<<"1", "$", ",", "1">>)
    /\ numOut = Num(Fin(11, 1))

HasNoDigit(s) == \A i \in 1..Len(s) : s[i] \notin Digits

\* C24: a string without a digit (empty, whitespace, letters, or only commas,
\* periods and minus signs) gives absent, never 0.
C24_NoDigitIsAbsent ==
    (StringDone /\ HasNoDigit(numIn.s)) => numOut = Null

\* "-." was coerced to absent, and so was the empty string
C24_Witness ==
    /\ numPc = "done"
    /\ numIn \in {Str(<<"-", ".">>), Str(<<>>)}
    /\ numOut = Null

---------------------------------------------------------------------------
(* Properties of normalizeExtraction *)

\* result is what normalizeExtraction made of raw
Called == pc \in {"normalized", "renormalized"}

ReturnedDocument == Called /\ result.ok

OutItems == result.data.items.a

\* a text that is not blank and carries no blank at either end
IsTrimmedText(v) == v.t = "string" /\ Len(v.s) > 0 /\ Trim(v.s) = v.s

\* missing, or not a text, or nothing but blanks
IsBlankOrNoText(v) == v.t # "string" \/ Len(Trim(v.s)) = 0

\* C1: a returned Document has at least one item, and a call on a document
\* whose items array is empty or missing fails.
C1_ItemsNeverEmpty ==
    Called =>
        /\ result.ok => Len(OutItems) >= 1
        /\ (/\ raw.t = "object"
            /\ \/ raw.items.t = "undefined"
               \/ raw.items.t = "array" /\ Len(raw.items.a) = 0)
           => ~result.ok

\* an empty item list, in an otherwise valid document, was rejected with the
\* message of the items schema
C1_Witness ==
    /\ pc = "normalized"
    /\ raw.t = "object" /\ raw.fullText = Str(<<"A">>) /\ raw.items = ArrayOf(<<>>)
    /\ ~result.ok
    /\ result.message = ItemsMessage

\* C2: in a returned Document every item's description is a non-empty
\* string without leading or trailing whitespace (a missing, empty or
\* whitespace-only description makes the call fail).
C2_DescriptionsTrimmed ==
    ReturnedDocument =>
        \A i \in 1..Len(OutItems) : IsTrimmedText(OutItems[i].description)

\* the business terms that have a recognized default, and the default
DefaultKeys ==
    {"packing", "deliveryTerms", "currency", "paymentTerms", "guarantees", "origin"}

RecognizedDefault(k) ==
    CASE k = "packing" ->
           <<"E", "x", "p", "o", "r", "t", " ", "s", "e", "a", "w", "o", "r", "t", "h", "y">>
      [] k = "deliveryTerms" -> <<"Y", "o", "u", "r", " ", "b", "e", "s", "t">>
      [] k = "currency" -> <<"E", "U", "R", "/", "U", "S", "D">>
      [] k = "paymentTerms" -> <<"T", "o", " ", "b", "e", " ", "a", "g", "r", "e", "e", "d">>
      [] k = "guarantees" -> <<"1", "2", "/", "1", "8", " ", "m", "o", "n", "t", "h", "s">>
      [] k = "origin" -> <<"T", "B", "A">>

NoDefaultKeys == {"rfqNumber", "issueDate", "dueDate", "subject"}

\* what the caller supplied under the metadata key k
SuppliedMetadata(k) ==
    IF raw.metadata.t = "object" THEN raw.metadata.f[k] ELSE Undef

OutMetadata == result.data.metadata

\* C3: when a default-bearing key of the metadata is missing or blank, the
\* returned metadata holds its recognized default; a key without a default
\* that is missing or blank stays absent.
C3_DefaultsApplied ==
    ReturnedDocument =>
        /\ \A k \in DefaultKeys :
               IsBlankOrNoText(SuppliedMetadata(k))
                   => OutMetadata.f[k] = Str(RecognizedDefault(k))
        /\ \A k \in NoDefaultKeys :
               IsBlankOrNoText(SuppliedMetadata(k)) => IsNullish(OutMetadata.f[k])

\* C4: every metadata key supplied with a value that is not blank after
\* trimming holds exactly the trimmed value in the returned Document.
C4_SuppliedMetadataKept ==
    ReturnedDocument =>
        \A k \in MetadataKeys \cup MetadataExtraKeys :
            ~IsBlankOrNoText(SuppliedMetadata(k))
                => OutMetadata.f[k] = Str(Trim(SuppliedMetadata(k).s))

IsAbsentOrTrimmedText(v) == IsNullish(v) \/ IsTrimmedText(v)

PartyTextsValid(c) ==
    c.t = "object" => \A k \in DOMAIN c.f : IsAbsentOrTrimmedText(c.f[k])

\* C5: in a returned Document every optional text field (party fields,
\* metadata fields, itemNumber, unit, notes, richDescription, remarks) is
\* absent or a non-empty string without leading or trailing whitespace.
C5_OptionalTextsTrimmed ==
    ReturnedDocument =>
        /\ PartyTextsValid(OutMetadata.supplier)
        /\ PartyTextsValid(OutMetadata.customer)
        /\ \A k \in DOMAIN OutMetadata.f : IsAbsentOrTrimmedText(OutMetadata.f[k])
        /\ \A i \in 1..Len(OutItems) :
               /\ IsAbsentOrTrimmedText(OutItems[i].itemNumber)
               /\ IsAbsentOrTrimmedText(OutItems[i].unit)
               /\ IsAbsentOrTrimmedText(OutItems[i].notes)
               /\ IsAbsentOrTrimmedText(OutItems[i].richDescription)
        /\ IsAbsentOrTrimmedText(result.data.remarks)

IsAbsentOrFinite(v) == IsNullish(v) \/ IsFiniteNum(v)

\* C6: in a returned Document every numeric field (quantity, unitPrice,
\* totalPrice, given or derived, and every totals entry) is absent or a
\* finite number.
C6_NumbersFinite ==
    ReturnedDocument =>
        /\ \A i \in 1..Len(OutItems) :
               /\ IsAbsentOrFinite(OutItems[i].quantity)
               /\ IsAbsentOrFinite(OutItems[i].unitPrice)
               /\ IsAbsentOrFinite(OutItems[i].totalPrice)
        /\ \A k \in TotalsKeys : IsAbsentOrFinite(result.data.totals.f[k])

\* C9: normalizing the JSON round trip of a returned Document succeeds and
\* returns the same Document.
C9_RoundTripIdempotent ==
    pc = "renormalized" => (result.ok /\ result.data = first.data)

\* a Document with a trimmed party field, a coerced quantity and a derived
\* totalPrice went through the round trip and came back the same
C9_Witness ==
    /\ pc = "renormalized"
    /\ result.ok
    /\ result = first
    /\ IsFiniteNum(OutItems[1].quantity)
    /\ IsFiniteNum(OutItems[1].totalPrice)
    /\ IsFiniteNum(result.data.totals.f["taxes"])

\* the hard invariants raw violates, each named by the path of its entry:
\* fullText missing or blank, the item list missing or empty, an item that is
\* no object or whose description is missing or blank
Violations(v) ==
    (IF IsBlankOrNoText(v.fullText) THEN {"fullText"} ELSE {})
        \cup (IF v.items.t # "array" \/ Len(v.items.a) = 0 THEN {"items"} ELSE {})
        \cup (IF v.items.t # "array" THEN {}
              ELSE {"items." \o ToString(i - 1) : i \in
                        {j \in 1..Len(v.items.a) : v.items.a[j].t # "object"}}
                   \cup {"items." \o ToString(i - 1) \o ".description" : i \in
                        {j \in 1..Len(v.items.a) :
                            /\ v.items.a[j].t = "object"
                            /\ IsBlankOrNoText(v.items.a[j].description)}})

\* C10: a call on a document that violates several hard invariants fails,
\* and the error carries one entry for every violated invariant.
C10_EveryViolationListed ==
    (pc = "normalized" /\ raw.t = "object" /\ Cardinality(Violations(raw)) >= 2)
        => /\ ~result.ok
           /\ \A path \in Violations(raw) :
                  \E j \in 1..Len(result.issues) : result.issues[j].path = path

---------------------------------------------------------------------------
(* Properties of the process-quote handler *)

\* the first of the handler's checks that the request fails, "none" if it
\* passes them all
FailedCheck(req) ==
    IF ~req.apiKey THEN "key"
    ELSE IF ~req.form \/ req.fileEntry.t # "file" THEN "file"
    ELSE IF req.fileEntry.size = 0 THEN "empty"
    ELSE IF req.fileEntry.size > 15 * 1024 * 1024 THEN "size"
    ELSE IF req.fileEntry.type \notin SUPPORTED_MIME_TYPES THEN "type"
    ELSE "none"

\* the error each check answers with
CheckError(check) ==
    CASE check = "key" -> "Configura OPENAI_API_KEY antes de procesar documentos."
      [] check = "file" -> "No se adjunto ningun archivo."
      [] check = "empty" -> "El archivo esta vacio."
      [] check = "size" -> "El archivo supera el limite de 15 MB."
      [] check = "type" -> "Formato no soportado. Usa PDF o imagenes (png, jpg, webp, tiff)."

\* C27: the OpenAI client is called only for a request that has the key
\* configured and a file that is present, not empty, at most 15 MB and of a
\* supported type; a request that fails a check is answered with the error of
\* that check (500 for the key, 400 otherwise) and no call was made; and a
\* response of success is given only when normalizeExtraction returned on
\* the output of the model.
C27_ChecksBeforeModel ==
    /\ openaiCalls # <<>> => FailedCheck(upload) = "none"
    /\ (processPc = "answered" /\ upload.form /\ FailedCheck(upload) # "none")
           => /\ processResponse.status = IF FailedCheck(upload) = "key" THEN 500 ELSE 400
              /\ processResponse.error = Message(CheckError(FailedCheck(upload)))
              /\ openaiCalls = <<>>
    /\ (processResponse # Undef /\ processResponse.status = 200)
           => /\ openaiCalls # <<>>
              /\ extracted.ok
              /\ extracted = normalizeExtraction(modelOutput)

\* a file of one byte more than 15 MB was answered with 400 and the error of
\* the size check, and no call was made
C27_Witness ==
    /\ processPc = "answered"
    /\ upload.apiKey /\ upload.form
    /\ upload.fileEntry.t = "file"
    /\ upload.fileEntry.size = 15 * 1024 * 1024 + 1
    /\ processResponse.status = 400
    /\ processResponse.error = Message("El archivo supera el limite de 15 MB.")
    /\ openaiCalls = <<>>

\* the request was answered with a document
Enhanced == processPc = "answered" /\ processResponse.status = 200

\* the enrichment model answered with an object that holds a list of entries
EntriesGiven ==
    /\ enrichment # Undef
    /\ enrichment.kind = "json"
    /\ enrichment.value.t = "object"
    /\ enrichment.value.items.t = "array"

\* the entry names an integer position inside a list of that length and
\* carries fields
NamesPosition(entry, length) ==
    /\ ~IsNullish(entry)
    /\ entry.index.t = "number"
    /\ entry.index.n.k = "fin"
    /\ entry.index.n.e = 0
    /\ entry.index.n.m >= 0 /\ entry.index.n.m < length
    /\ ~IsNullish(entry.fields)

\* every field of every entry is a text or absent
FieldsAreTexts(entries) ==
    \A i \in 1..Len(entries) :
        (~IsNullish(entries[i]) /\ ~IsNullish(entries[i].fields))
            => \A k \in EnrichmentKeys :
                   entries[i].fields.f[k].t \in {"string", "null", "undefined"}

\* the items with the entries that name a position applied in their order,
\* the others passed over
RECURSIVE WithEntries(_, _)
WithEntries(items, entries) ==
    IF Len(entries) = 0 THEN items
    ELSE LET entry == Head(entries)
         IN  IF NamesPosition(entry, Len(items))
             THEN WithEntries(
                      [items EXCEPT ![entry.index.n.m + 1].richDescription =
                          Str(formatted(entry.fields.f, Len(FieldOrder)))],
                      Tail(entries))
             ELSE WithEntries(items, Tail(entries))

\* d is q but for the richDescription of its items
SameButRichDescription(d, q) ==
    /\ Len(d.items.a) = Len(q.items.a)
    /\ d = [q EXCEPT !.items.a =
                [i \in 1..Len(q.items.a) |->
                    [q.items.a[i] EXCEPT !.richDescription =
                        d.items.a[i].richDescription]]]

\* C28: a request whose extraction was normalized succeeds; the document
\* answered is the normalized one but for the richDescription of items; the
\* entries that name no integer position inside the item list are passed
\* over and the others applied; and when the enrichment call throws or gives
\* no list of entries the normalized document is answered as it was.
C28_OnlyRichDescriptionChanges ==
    /\ (processPc = "answered" /\ extracted.ok) => processResponse.status = 200
    /\ Enhanced =>
           /\ SameButRichDescription(processResponse.data, extracted.data)
           /\ (EntriesGiven /\ FieldsAreTexts(enrichment.value.items.a))
                  => processResponse.data.items.a =
                         WithEntries(extracted.data.items.a, enrichment.value.items.a)
           /\ ~EntriesGiven => processResponse.data = extracted.data

---------------------------------------------------------------------------
(* Properties of computeTotals *)

\* the sum over the items of totalPrice, or of quantity * unitPrice when there
\* is no totalPrice and both are present, or of 0
RECURSIVE SumOfItems(_)
SumOfItems(items) ==
    IF Len(items) = 0 THEN Fin(0, 0)
    ELSE LET item == Head(items)
             amount == IF ~IsNullish(item.totalPrice) THEN item.totalPrice.n
                       ELSE IF ~IsNullish(item.quantity) /\ ~IsNullish(item.unitPrice)
                       THEN Times(item.quantity.n, item.unitPrice.n)
                       ELSE Fin(0, 0)
         IN  Plus(amount, SumOfItems(Tail(items)))

\* n + taxes + shipping - discount of the totals c, absent terms as 0
WithCharges(n, c) ==
    LET term(v) == IF IsNullish(v) THEN Fin(0, 0) ELSE v.n
    IN  Minus(Plus(Plus(n, term(c.f.taxes)), term(c.f.shipping)), term(c.f.discount))

\* C26 as stated: the returned subtotal is the sum over the items, whatever
\* subtotal was supplied; the returned total is the supplied total, or the
\* sum + taxes + shipping - discount; and without a supplied total the
\* returned fields satisfy total = subtotal + taxes + shipping - discount.
C26_TotalsAddUp ==
    computedTotals # Undef =>
        /\ computedTotals.f.subtotal = Num(SumOfItems(totalsItems))
        /\ computedTotals.f.total =
               IF ~IsNullish(currentTotals.f.total) THEN currentTotals.f.total
               ELSE Num(WithCharges(SumOfItems(totalsItems), currentTotals))
        /\ IsNullish(currentTotals.f.total)
               => computedTotals.f.total = Num(WithCharges(computedTotals.f.subtotal.n, computedTotals))

\* C26 amended: the returned subtotal is the sum over the items rounded to
\* two decimals, whatever subtotal was supplied; taxes, shipping and discount
\* are returned as supplied (null when absent); the returned total is the
\* supplied total rounded to two decimals, or the unrounded sum + taxes +
\* shipping - discount rounded to two decimals.
C26_TotalsRounded ==
    computedTotals # Undef =>
        /\ computedTotals.f.subtotal = Num(ToFixed2(SumOfItems(totalsItems)))
        /\ \A k \in {"taxes", "shipping", "discount"} :
               computedTotals.f[k] = IF IsNullish(currentTotals.f[k]) THEN Null
                             ELSE currentTotals.f[k]
        /\ computedTotals.f.total =
               IF ~IsNullish(currentTotals.f.total)
               THEN Num(ToFixed2(currentTotals.f.total.n))
               ELSE Num(ToFixed2(WithCharges(SumOfItems(totalsItems), currentTotals)))

\* items of 0.1875 and 0.004 with a supplied subtotal of 100, taxes of 0.004
\* and no total: the subtotal came back as 0.19 and the total as 0.2
C26_Witness ==
    /\ computedTotals # Undef
    /\ Len(totalsItems) = 2
    /\ SumOfItems(totalsItems) = Fin(1915, 4)
    /\ currentTotals.f.subtotal = Num(Fin(100, 0))
    /\ currentTotals.f.taxes = Num(Fin(4, 3))
    /\ IsNullish(currentTotals.f.shipping) /\ IsNullish(currentTotals.f.discount)
    /\ IsNullish(currentTotals.f.total)
    /\ computedTotals.f.subtotal = Num(Fin(19, 2))
    /\ computedTotals.f.total = Num(Fin(2, 1))

---------------------------------------------------------------------------
(* Properties of fillMissingTotals *)

\* C25: in a returned Document an item's totalPrice is quantity * unitPrice
\* rounded to two decimals exactly when no totalPrice was supplied and both
\* quantity and unitPrice are present; a supplied totalPrice is kept; and
\* quantity, unitPrice and description are those of the parsed item.
C25_TotalDerivedOnlyWhenMissing ==
    ReturnedDocument =>
        \A i \in 1..Len(OutItems) :
            LET in == raw.items.a[i]
                q  == normalizeNumber(in.quantity)
                u  == normalizeNumber(in.unitPrice)
                t  == normalizeNumber(in.totalPrice)
            IN  /\ OutItems[i].quantity = q
                /\ OutItems[i].unitPrice = u
                /\ OutItems[i].description = in.description
                /\ OutItems[i].totalPrice =
                       IF t = Null /\ q # Null /\ u # Null
                       THEN Num(ToFixed2(Times(q.n, u.n)))
                       ELSE t

\* 1250.5 items at 0.125 with no total supplied: 156.3125 was rounded to
\* 156.31
C25_Witness ==
    /\ pc = "normalized" /\ result.ok
    /\ raw.items.a[1].quantity = Str(<<"1", ",", "2", "5", "0", ".", "5", "0">>)
    /\ raw.items.a[1].unitPrice = Num(Fin(125, 3))
    /\ raw.items.a[1].totalPrice = Undef
    /\ OutItems[1].totalPrice = Num(Fin(15631, 2))
    /\ OutItems[1].quantity = Num(Fin(12505, 1))

\* positions (0-based) of the items whose description is missing or blank
FaultyItems(v) ==
    IF v.t # "object" \/ v.items.t # "array" THEN {}
    ELSE {j - 1 : j \in {i \in 1..Len(v.items.a) :
                            /\ v.items.a[i].t = "object"
                            /\ IsBlankOrNoText(v.items.a[i].description)}}

\* documents of two items that differ only in which descriptions are empty
TwoItemDocs ==
    {DocOf(Str(<<"A">>), Undef, ArrayOf(<<DescribedItem(a), DescribedItem(b)>>),
           Undef, Undef) :
        a \in {Str(<<>>), Str(<<"A">>)}, b \in {Str(<<>>), Str(<<"A">>)}}

\* the message normalizeExtraction throws on each of them
TwoItemMessages == [d \in TwoItemDocs |-> normalizeExtraction(d).message]

---------------------------------------------------------------------------
(* Properties of normalizeExtraction: required and optional fields *)

\* C11: a call on a document whose fullText is missing, not a string, empty
\* or whitespace-only fails; the fullText of a returned Document is the
\* non-empty text the caller supplied.
C11_FullTextRequired ==
    Called =>
        /\ (raw.t = "object" /\ IsBlankOrNoText(raw.fullText)) => ~result.ok
        /\ result.ok =>
               /\ result.data.fullText.t = "string"
               /\ Len(result.data.fullText.s) > 0
               /\ result.data.fullText = raw.fullText

\* one of the three representations of a blank text
IsBlankRepresentation(v) ==
    IsNullish(v) \/ (v.t = "string" /\ Len(Trim(v.s)) = 0)

PartyTexts(c, name) ==
    IF c.t = "object" THEN {<<name \o "." \o k, c.f[k]>> : k \in DOMAIN c.f} ELSE {}

\* the optional text fields of a document (remarks, the metadata texts, the
\* party fields, the notes of the items), each with its path
OptionalTexts(d) ==
    {<<"remarks", d.remarks>>}
        \cup {<<"items." \o ToString(i - 1) \o ".notes", d.items.a[i].notes>> :
                 i \in 1..Len(d.items.a)}
        \cup (IF d.metadata.t # "object" THEN {}
              ELSE {<<"metadata." \o k, d.metadata.f[k]>> : k \in DOMAIN d.metadata.f}
                       \cup PartyTexts(d.metadata.supplier, "metadata.supplier")
                       \cup PartyTexts(d.metadata.customer, "metadata.customer"))

\* a document in which nothing but the optional text fields can be at fault
OnlyOptionalTextsVary(d) ==
    /\ d.t = "object"
    /\ ~IsBlankOrNoText(d.fullText)
    /\ d.metadata.t \in {"undefined", "object"}
    /\ d.metadata.t = "object" =>
           /\ d.metadata.supplier.t \in {"undefined", "object"}
           /\ d.metadata.customer.t \in {"undefined", "object"}
    /\ d.items.t = "array" /\ Len(d.items.a) >= 1
    /\ \A i \in 1..Len(d.items.a) :
           /\ d.items.a[i].t = "object"
           /\ ~IsBlankOrNoText(d.items.a[i].description)
           /\ d.items.a[i].itemNumber.t \in {"undefined", "null", "string"}
           /\ d.items.a[i].quantity.t = "undefined"
           /\ d.items.a[i].unitPrice.t = "undefined"
           /\ d.items.a[i].totalPrice.t = "undefined"
    /\ d.totals.t = "undefined"

\* C12: when every optional text field is a string or one of the blank
\* representations (key missing, null, whitespace-only string), the call
\* does not fail, and every field given in a blank representation is absent
\* in the returned Document.
C12_BlankTextsAbsent ==
    (/\ pc = "normalized"
     /\ OnlyOptionalTextsVary(raw)
     /\ \A p \in OptionalTexts(raw) : p[2].t = "string" \/ IsBlankRepresentation(p[2]))
        => /\ result.ok
           /\ \A p \in OptionalTexts(raw) :
                  IsBlankRepresentation(p[2]) =>
                      \A q \in OptionalTexts(result.data) :
                          q[1] = p[1] => IsNullish(q[2])

NumericKeys == {"quantity", "unitPrice", "totalPrice"}

\* a document in which nothing but the numeric fields of the items can be at
\* fault
OnlyItemNumbersVary(d) ==
    /\ d.t = "object"
    /\ ~IsBlankOrNoText(d.fullText)
    /\ d.metadata.t = "undefined"
    /\ d.items.t = "array" /\ Len(d.items.a) >= 1
    /\ \A i \in 1..Len(d.items.a) :
           /\ d.items.a[i].t = "object"
           /\ ~IsBlankOrNoText(d.items.a[i].description)
           /\ d.items.a[i].itemNumber.t = "undefined"
           /\ d.items.a[i].notes.t = "undefined"
    /\ d.totals.t \in {"undefined", "object"}
    /\ d.remarks.t = "undefined"

\* C13: whatever value stands in a numeric field of an item of an otherwise
\* valid document, the call succeeds; quantity and unitPrice are absent in
\* the output unless the value coerces to a finite number, which is then the
\* output.
C13_BadNumbersAbsent ==
    (pc = "normalized" /\ OnlyItemNumbersVary(raw))
        => /\ result.ok
           /\ \A i \in 1..Len(raw.items.a) :
                  /\ OutItems[i].quantity = normalizeNumber(raw.items.a[i].quantity)
                  /\ OutItems[i].unitPrice = normalizeNumber(raw.items.a[i].unitPrice)
                  /\ IsNullish(OutItems[i].totalPrice) \/ OutItems[i].totalPrice.t = "number"

\* a document whose fullText and items are valid and that has no other key
ValidWithoutMetadata(d) ==
    /\ OnlyOptionalTextsVary(d)
    /\ d.metadata.t = "undefined"
    /\ d.remarks.t = "undefined"
    /\ \A i \in 1..Len(d.items.a) :
           d.items.a[i].itemNumber.t = "undefined" /\ d.items.a[i].notes.t = "undefined"

\* C14: a call on a document with a valid fullText and valid items and no
\* metadata key succeeds, and the metadata of the returned Document is the
\* object an input metadata of {} gives.
C14_MissingMetadataIsEmpty ==
    (pc = "normalized" /\ ValidWithoutMetadata(raw))
        => /\ result.ok
           /\ OutMetadata = EmptyMetadata

\* a document with two items and no metadata key was normalized
C14_Witness ==
    /\ pc = "normalized"
    /\ ValidWithoutMetadata(raw)
    /\ Len(raw.items.a) = 2
    /\ result.ok
    /\ OutMetadata.t = "object"
    /\ Len(OutItems) = 2

\* what the caller supplied as the party block named by which
SuppliedParty(which) ==
    IF raw.metadata.t # "object" THEN Undef
    ELSE IF which = "supplier" THEN raw.metadata.supplier ELSE raw.metadata.customer

OutParty(which) ==
    IF which = "supplier" THEN OutMetadata.supplier ELSE OutMetadata.customer

\* C15: when the input metadata has no supplier block (or no customer
\* block), the block is absent in the returned Document: it is no record,
\* empty or of empty strings.
C15_AbsentPartyStaysAbsent ==
    ReturnedDocument =>
        \A which \in {"supplier", "customer"} :
            SuppliedParty(which).t = "undefined" => OutParty(which) = Undef

\* a document with metadata texts and a customer block but no supplier block
\* was normalized, and its supplier is absent
C15_Witness ==
    /\ pc = "normalized"
    /\ raw.t = "object"
    /\ raw.metadata.t = "object"
    /\ raw.metadata.supplier.t = "undefined"
    /\ raw.metadata.customer.t = "object"
    /\ result.ok
    /\ OutMetadata.supplier = Undef
    /\ OutMetadata.customer.t = "object"

\* C16: every field of a supplied party block (companyName, name, address,
\* phone, email, taxId, website) that holds a non-blank value holds exactly
\* the trimmed value in the returned Document, whatever its sibling fields
\* hold.
C16_PartyFieldsKept ==
    ReturnedDocument =>
        \A which \in {"supplier", "customer"} :
            SuppliedParty(which).t = "object" =>
                /\ OutParty(which).t = "object"
                /\ \A k \in ContactKeys \cup ContactExtraKeys :
                       ~IsBlankOrNoText(SuppliedParty(which).f[k])
                           => OutParty(which).f[k] = Str(Trim(SuppliedParty(which).f[k].s))

\* the optional text fields of an item of the wire shape
ItemTextsOf(item) ==
    [itemNumber |-> item.itemNumber, unit |-> item.unit, notes |-> item.notes,
     richDescription |-> item.richDescription]

\* C17: a returned Document has the items of the input, in their order, and
\* every optional field (itemNumber, unit, notes, richDescription, quantity)
\* supplied with a non-blank value is present in the output item, trimmed
\* (a text) or coerced (quantity).
C17_ItemFieldsKept ==
    ReturnedDocument =>
        /\ Len(OutItems) = Len(raw.items.a)
        /\ \A i \in 1..Len(raw.items.a) :
               /\ OutItems[i].description = raw.items.a[i].description
               /\ \A k \in DOMAIN ItemTextsOf(raw.items.a[i]) :
                      ~IsBlankOrNoText(ItemTextsOf(raw.items.a[i])[k])
                          => ItemTextsOf(OutItems[i])[k]
                                 = Str(Trim(ItemTextsOf(raw.items.a[i])[k].s))
               /\ IsFiniteNum(normalizeNumber(raw.items.a[i].quantity))
                      => OutItems[i].quantity = normalizeNumber(raw.items.a[i].quantity)

---------------------------------------------------------------------------
(* Properties of the render-quote handler and the page *)

\* the items buildPdf was called with
RenderedItems == rendered.items.a

\* C18: buildPdf is called only with the Document normalizeExtraction
\* returned for the same request, so that after any edits on the page and a
\* download the renderer gets at least one item, no item with a blank
\* description and no number that is not finite.
C18_RendererInputValid ==
    rendered # Undef =>
        /\ normalized.ok
        /\ rendered = normalized.data
        /\ Len(RenderedItems) >= 1
        /\ \A i \in 1..Len(RenderedItems) :
               /\ ~IsBlankOrNoText(RenderedItems[i].description)
               /\ IsAbsentOrFinite(RenderedItems[i].quantity)
               /\ IsAbsentOrFinite(RenderedItems[i].unitPrice)
               /\ IsAbsentOrFinite(RenderedItems[i].totalPrice)
        /\ \A k \in TotalsKeys : IsAbsentOrFinite(rendered.totals.f[k])

\* the step in which handleDownload takes up the response
DownloadAnswered == response # Undef /\ response' = Undef

\* C19: when normalizeExtraction fails in the render-quote handler, buildPdf
\* is not called and the response is an error response without a PDF body
\* whose error is the aggregated validation message; handleDownload then
\* sets the error of the page to that message, clicks no file link and
\* resets isDownloading.
C19_RenderFailureSurfaced ==
    /\ [](serverPc = "failed" => rendered = Undef)
    /\ []((response # Undef /\ normalized # NoResult /\ ~normalized.ok) =>
              /\ response.status = 500
              /\ response.body = Undef
              /\ response.error = Message(normalized.message)
              /\ rendered = Undef)
    /\ [][(DownloadAnswered /\ normalized # NoResult /\ ~normalized.ok) =>
              /\ error' = Message(normalized.message)
              /\ downloaded' = FALSE
              /\ isDownloading' = FALSE]_vars

\* the only item of the quote was removed and the download was refused: the
\* page shows the message of the items schema and nothing was downloaded
C19_Witness ==
    /\ normalized # NoResult
    /\ ~normalized.ok
    /\ normalized.message = ItemsMessage
    /\ quote # Null
    /\ Len(quote.items.a) = 0
    /\ response = Undef
    /\ request = Undef
    /\ serverPc = "idle"
    /\ error = Message(normalized.message)
    /\ ~isDownloading
    /\ ~downloaded
    /\ rendered = Undef

---------------------------------------------------------------------------
(* Properties of concurrent calls *)

\* C20: however the steps of concurrent calls of normalizeExtraction
\* interleave, each call ends with the result (Document or failure) that the
\* call gives when it runs alone on the same input, and the input is as it
\* was given.
C20_CallsIndependent ==
    \A call \in DOMAIN calls :
        /\ calls[call].input = calls[call].given
        /\ calls[call].pc = "done" =>
               calls[call].result = normalizeExtraction(calls[call].given)

\* two calls on different inputs, one valid and one not, each ended with its
\* own result: a Document with a derived totalPrice, and an error of two
\* entries
C20_Witness ==
    /\ DOMAIN calls # {}
    /\ calls[1].pc = "done" /\ calls[2].pc = "done"
    /\ calls[1].result.ok /\ ~calls[2].result.ok
    /\ IsFiniteNum(calls[1].result.data.items.a[1].totalPrice)
    /\ Len(calls[2].result.issues) = 2

---------------------------------------------------------------------------
(* Properties of overlapping uploads *)

\* the uploads whose response was not handled yet
InFlight == {k \in 1..Len(fetches) : ~fetches[k].done}

\* C29: isProcessing is true in every state in which a request started by
\* handleFile has not completed, also when a second file is dropped while the
\* first request is in flight.
C29_ProcessingWhileInFlight == InFlight # {} => isProcessing

\* what the page shows of the upload of a file when nothing else interferes
ShowsUploadOf(file) ==
    IF ExtractionOf[file].ok
    THEN quote = JsonRoundTrip(ExtractionOf[file].data) /\ error = Null
    ELSE error = Message(ExtractionOf[file].message)

\* the response to the k-th upload is handled in this step
Answered(k) == ~fetches[k].done /\ fetches'[k].done

\* C30: once two overlapping uploads have both completed, the quote and the
\* error shown are those of the file uploaded last, in whichever order the
\* responses arrived; and the response to an earlier upload, arriving after
\* that of a later one, changes neither the quote (edited or not) nor the
\* error.
C30_LastUploadWins ==
    /\ [](  (/\ Len(fetches) >= 2
             /\ InFlight = {}
             /\ edits = 0
             /\ error # Message(UnsupportedFormat))
          => ShowsUploadOf(fetches[Len(fetches)].file))
    /\ [][\A k \in 1..Len(fetches) :
              (Answered(k) /\ \E later \in (k + 1)..Len(fetches) : fetches[later].done)
                  => UNCHANGED <<quote, error>>]_vars

====
